---- MODULE Spec2Model ----
(***************************************************************************)
(* Model of WaterArbitrageSystem (src/water_arbitrage_system.py): the      *)
(* RawData and Opportunities worksheets and detect_arbitrage_opportunities *)
(* with its helpers calculate_risk_score, estimate_transport_cost and      *)
(* get_weather_impact.                                                     *)
(*                                                                         *)
(* Numbers.  Python floats are modelled by exact fixed-point integers:     *)
(*   money        in units of 0.002 currency units (UnitsPerDollar = 500), *)
(*                so that round(x, 2) (to a multiple of UnitsPerCent = 5)  *)
(*                never meets a half-way case;                             *)
(*   drought_risk in tenths, risk scores in thousandths.                   *)
(* A risk score whose exact value ends in 5 thousandths is rounded by      *)
(* round(x, 2) up or down depending on the binary value of the float       *)
(* (0.1 + 0.195 gives 0.295 or 0.29500000000000004 depending on the        *)
(* operands): the table HalfRoundsDown lists the cases that round down.    *)
(***************************************************************************)
EXTENDS Integers, Sequences, FiniteSets, TLC

VARIABLES
    rawdata,              \* data rows of the RawData worksheet, in sheet order
    opportunities_sheet,  \* the Opportunities worksheet: header row and data rows
    returned,             \* outcome of the last detect_arbitrage_opportunities call
    calls,                \* detect calls on this rawdata content, up to MaxCalls
    now,                  \* the wall clock (datetime.now(), in seconds)
    stable_sort,          \* whether this build's argsort keeps equal keys in order
    dashboard_sheet,      \* the Dashboard worksheet
    aianalysis_sheet,     \* rows of the AIAnalysis worksheet
    quotes,               \* the estimate_transport_cost calls made directly
    pc,                   \* position of each concurrent detect invocation
    local,                \* the opportunities list of each concurrent invocation
    cycle,                \* what the last run_full_cycle call returned
    relevance,            \* the last evaluate_relevance call: reply and score
    intelligence,         \* the last get_climate_intelligence(_safe) call
    veles                 \* the last VelesReportAgent call

vars == <<rawdata, opportunities_sheet, returned, calls, now, stable_sort,
          dashboard_sheet, aianalysis_sheet, quotes, pc, local, cycle,
          relevance, intelligence, veles>>

(* the state of the workbook system, which the news and report agents do  *)
(* not share, and the state of the agents                                  *)
workbook == <<rawdata, opportunities_sheet, returned, calls, now, stable_sort,
              dashboard_sheet, aianalysis_sheet, quotes, pc, local, cycle>>
agents == <<relevance, intelligence, veles>>

(* what a sequential detect call does not touch *)
frame == <<dashboard_sheet, aianalysis_sheet, quotes, pc, local, cycle,
           relevance, intelligence, veles>>

----------------------------------------------------------------------------
(* Bounds of the model *)

MaxRecords == 3     \* rows a sheet built by appends can hold
MaxClock == 2       \* the clock runs from 1 to MaxClock
MaxCalls == 2       \* calls counts up to MaxCalls and stays there
MaxQuotes == 2      \* direct estimate_transport_cost calls that are recorded
MaxCollects == 2    \* collect_water_data calls of a run
NumWide == 6        \* locations of the wide snapshots

(* Fixed-point resolution *)
UnitsPerCent == 5
UnitsPerDollar == 100 * UnitsPerCent

Dollars(d) == d * UnitsPerDollar

(* Program constants *)
MinGrossProfit == 50
MinMarginPct == 10
MinNetProfit == 20
TopN == 10
DefaultTransportCost == 30
HighMarginPct == 50
LowVolume == 500
DefaultDroughtRisk == 5

----------------------------------------------------------------------------
(* Cells of a worksheet row as get_all_records returns them: a number, or  *)
(* text that float()/int()/to_datetime() cannot parse.                     *)

Num(v) == [numeric |-> TRUE, val |-> v]
Text == [numeric |-> FALSE, val |-> 0]

Row(l, p, v, d) == [Location |-> l, Price |-> p, Volume |-> v, Date |-> d]

----------------------------------------------------------------------------
(* Locations: the five of the mock tables and three the tables do not know. *)

LocationNames ==
    << "Central Valley", "Bay Area", "Mojave", "Southern CA",
       "Imperial Valley", "Sacramento Valley", "Owens Valley", "Tulare" >>

(* get_weather_impact: drought_risk in tenths, the default for a location  *)
(* the table does not hold.                                                *)
weather_impacts ==
    ("Central Valley" :> 7) @@ ("Southern CA" :> 8) @@ ("Bay Area" :> 3) @@
    ("Sacramento Valley" :> 5) @@ ("Imperial Valley" :> 6)

get_weather_impact(location) ==
    IF location \in DOMAIN weather_impacts
    THEN weather_impacts[location]
    ELSE DefaultDroughtRisk

(* estimate_transport_cost: dict.get(..) or dict.get(..) or 30. A missing  *)
(* key gives None, and `or` passes over None and over 0 alike.             *)
transport_matrix ==
    (<<"Central Valley", "Bay Area">> :> 25) @@
    (<<"Central Valley", "Southern CA">> :> 35) @@
    (<<"Imperial Valley", "Southern CA">> :> 20) @@
    (<<"Imperial Valley", "Bay Area">> :> 45) @@
    (<<"Sacramento Valley", "Bay Area">> :> 30) @@
    (<<"Sacramento Valley", "Southern CA">> :> 40)

MatrixGet(from_location, to_location) ==
    IF <<from_location, to_location>> \in DOMAIN transport_matrix
    THEN transport_matrix[<<from_location, to_location>>]
    ELSE 0

(* mutant: the pair is looked up in the given order only *)
Mutant_estimate_transport_cost_OneWay(from_location, to_location) ==
    IF MatrixGet(from_location, to_location) # 0
    THEN MatrixGet(from_location, to_location)
    ELSE DefaultTransportCost

estimate_transport_cost(from_location, to_location) ==
    IF MatrixGet(from_location, to_location) # 0
    THEN MatrixGet(from_location, to_location)
    ELSE IF MatrixGet(to_location, from_location) # 0
         THEN MatrixGet(to_location, from_location)
         ELSE DefaultTransportCost

----------------------------------------------------------------------------
(* Arithmetic of the scan *)

(* profit_margin = (profit / buy_price) * 100 is kept as the pair          *)
(* <<profit * 100, buy_price>>, buy_price # 0; MarginGt is margin > pct.   *)
MarginGt(profit_margin, pct) ==
    IF profit_margin[2] > 0
    THEN profit_margin[1] > pct * profit_margin[2]
    ELSE profit_margin[1] < pct * profit_margin[2]

(* round(net_profit, 2) on money: the nearest multiple of a cent.          *)
Round2(x) == ((2 * x + UnitsPerCent) \div (2 * UnitsPerCent)) * UnitsPerCent

(* The half-way cases of round(risk_score, 2) that IEEE-754 doubles round  *)
(* down, as <<margin > 50, volume < 500, lesser drought, greater drought>> *)
(* (e.g. 0.1 + (0.3 + 0.6) / 2 * 0.3 = 0.235 -> 0.23, while                *)
(* 0.1 + (0.3 + 0.8) / 2 * 0.3 = 0.265 -> 0.27); every other half-way case *)
(* over the drought risks 0.3, 0.5, 0.6, 0.7, 0.8 rounds up.               *)
HalfRoundsDown ==
    { <<FALSE, FALSE, 3, 6>>, <<FALSE, FALSE, 6, 7>>, <<FALSE, FALSE, 7, 8>>,
      <<FALSE, TRUE, 6, 7>>,
      <<TRUE, FALSE, 5, 8>>, <<TRUE, FALSE, 6, 7>>, <<TRUE, FALSE, 7, 8>> }

Min(a, b) == IF a <= b THEN a ELSE b
Max(a, b) == IF a >= b THEN a ELSE b

(* mutant: the volume risk reads the sell location's volume *)
Mutant_calculate_risk_score_SellVolume(buy_location_data, sell_location_data, profit_margin) ==
    LET high == IF MarginGt(profit_margin, HighMarginPct) THEN 300 ELSE 0
        low == IF sell_location_data.Volume.val < LowVolume THEN 200 ELSE 0
        buy_weather == get_weather_impact(buy_location_data.Location)
        sell_weather == get_weather_impact(sell_location_data.Location)
    IN  Min(100 + high + low + (buy_weather + sell_weather) * 15, 1000)

(* mutant: the drought risks are summed, not averaged, and the cap is missing *)
Mutant_calculate_risk_score_Uncapped(buy_location_data, sell_location_data, profit_margin) ==
    LET high == IF MarginGt(profit_margin, HighMarginPct) THEN 300 ELSE 0
        low == IF buy_location_data.Volume.val < LowVolume THEN 200 ELSE 0
        buy_weather == get_weather_impact(buy_location_data.Location)
        sell_weather == get_weather_impact(sell_location_data.Location)
    IN  100 + high + low + (buy_weather + sell_weather) * 30

(* calculate_risk_score, in thousandths; the caller has checked that       *)
(* int(Volume) does not raise.                                             *)
calculate_risk_score(buy_location_data, sell_location_data, profit_margin) ==
    LET high == IF MarginGt(profit_margin, HighMarginPct) THEN 300 ELSE 0
        buy_volume == buy_location_data.Volume.val
        low == IF buy_volume < LowVolume THEN 200 ELSE 0
        buy_weather == get_weather_impact(buy_location_data.Location)
        sell_weather == get_weather_impact(sell_location_data.Location)
        \* avg_drought_risk * 0.3 = (b + s) / 2 * 0.3, tenths to thousandths
        drought == (buy_weather + sell_weather) * 15
    IN  Min(100 + high + low + drought, 1000)

(* round(risk_score, 2), in thousandths (a multiple of 10)                 *)
RoundRisk(buy_location_data, sell_location_data, profit_margin) ==
    LET x == calculate_risk_score(buy_location_data, sell_location_data,
                                  profit_margin)
        b == get_weather_impact(buy_location_data.Location)
        s == get_weather_impact(sell_location_data.Location)
        key == << MarginGt(profit_margin, HighMarginPct),
                  buy_location_data.Volume.val < LowVolume,
                  Min(b, s), Max(b, s) >>
    IN  IF x % 10 = 5
        THEN IF key \in HalfRoundsDown THEN x - 5 ELSE x + 5
        ELSE ((x + 5) \div 10) * 10

----------------------------------------------------------------------------
(* detect_arbitrage_opportunities                                          *)

(* df.sort_values('Date'): the row indices in ascending Date order. The    *)
(* default kind is quicksort, which pandas documents as not stable, so the *)
(* order of rows with equal Date depends on the build: insertion order in  *)
(* one (stable), the reverse in the other.                                 *)
DateBefore(df, stable, i, j) ==
    \/ df[i].Date.val < df[j].Date.val
    \/ /\ df[i].Date.val = df[j].Date.val
       /\ IF stable THEN i < j ELSE i > j

sort_values(df, stable) ==
    LET rank == [i \in 1..Len(df) |->
                    Cardinality({j \in 1..Len(df) : DateBefore(df, stable, j, i)})]
    IN  [p \in 1..Len(df) |-> CHOOSE i \in 1..Len(df) : rank[i] = p - 1]

(* mutant: groupby is missing, every row is a latest price *)
Mutant_latest_prices_AllRows(df, stable) ==
    LET sorted == sort_values(df, stable)
    IN  [p \in 1..Len(df) |-> sorted[p]]

(* mutant: the rows are grouped by Date instead of Location *)
Mutant_latest_prices_GroupByDate(df, stable) ==
    LET sorted == sort_values(df, stable)
        IsTail(p) ==
            \A q \in (p + 1)..Len(sorted) :
                df[sorted[q]].Date # df[sorted[p]].Date
        RECURSIVE Tails(_)
        Tails(p) ==
            IF p > Len(sorted) THEN <<>>
            ELSE (IF IsTail(p) THEN <<sorted[p]>> ELSE <<>>) \o Tails(p + 1)
    IN  Tails(1)

(* .groupby('Location').tail(1): of each location the last row in sorted   *)
(* order; the rows keep the sorted order and their index labels.           *)
latest_prices(df, stable) ==
    LET sorted == sort_values(df, stable)
        IsTail(p) ==
            \A q \in (p + 1)..Len(sorted) :
                df[sorted[q]].Location # df[sorted[p]].Location
        RECURSIVE Tails(_)
        Tails(p) ==
            IF p > Len(sorted) THEN <<>>
            ELSE (IF IsTail(p) THEN <<sorted[p]>> ELSE <<>>) \o Tails(p + 1)
    IN  Tails(1)

NoRow == [buy_location |-> "", buy_price |-> 0, sell_location |-> "",
          sell_price |-> 0, net_profit |-> 0, risk_score |-> 0, timestamp |-> 0]

(* mutant: either criterion is enough *)
Mutant_IsCandidate_Or(profit, profit_margin) ==
    profit > Dollars(MinGrossProfit) \/ MarginGt(profit_margin, MinMarginPct)

(* if profit > 50 and profit_margin > 10 *)
IsCandidate(profit, profit_margin) ==
    profit > Dollars(MinGrossProfit) /\ MarginGt(profit_margin, MinMarginPct)

(* mutant: any positive net profit is viable *)
Mutant_IsViable_Positive(net_profit) == net_profit > 0

(* if net_profit > 20 *)
IsViable(net_profit) == net_profit > Dollars(MinNetProfit)

(* mutant: the profit is the absolute price difference *)
Mutant_PairStep_AbsoluteProfit(row1, row2, t) ==
    IF ~row1.Price.numeric \/ ~row2.Price.numeric
    THEN [outcome |-> "ValueError", row |-> NoRow]
    ELSE
      LET buy_price == row1.Price.val
          sell_price == row2.Price.val
          profit == Max(sell_price - buy_price, buy_price - sell_price)
      IN
      IF buy_price = 0
      THEN [outcome |-> "ZeroDivisionError", row |-> NoRow]
      ELSE
        LET profit_margin == <<profit * 100, buy_price>> IN
        IF IsCandidate(profit, profit_margin)
        THEN
          IF ~row1.Volume.numeric
          THEN [outcome |-> "ValueError", row |-> NoRow]
          ELSE
            LET net_profit ==
                    profit - Dollars(estimate_transport_cost(row1.Location,
                                                             row2.Location))
            IN
            IF IsViable(net_profit)
            THEN [outcome |-> "append",
                  row |-> [buy_location |-> row1.Location,
                           buy_price |-> buy_price,
                           sell_location |-> row2.Location,
                           sell_price |-> sell_price,
                           net_profit |-> Round2(net_profit),
                           risk_score |-> RoundRisk(row1, row2, profit_margin),
                           timestamp |-> t]]
            ELSE [outcome |-> "none", row |-> NoRow]
        ELSE [outcome |-> "none", row |-> NoRow]

(* The body of the try block for one pair of rows at clock t: "append"     *)
(* with the opportunity row, "none" when a criterion fails, "ValueError"   *)
(* (caught: continue) or "ZeroDivisionError" (not caught).                 *)
PairStep(row1, row2, t) ==
    IF ~row1.Price.numeric \/ ~row2.Price.numeric
    THEN [outcome |-> "ValueError", row |-> NoRow]
    ELSE
      LET buy_price == row1.Price.val
          sell_price == row2.Price.val
          profit == sell_price - buy_price
      IN
      IF buy_price = 0
      THEN [outcome |-> "ZeroDivisionError", row |-> NoRow]
      ELSE
        LET profit_margin == <<profit * 100, buy_price>> IN
        IF IsCandidate(profit, profit_margin)
        THEN
          IF ~row1.Volume.numeric
          THEN [outcome |-> "ValueError", row |-> NoRow]
          ELSE
            LET risk_score == RoundRisk(row1, row2, profit_margin)
                transport_cost ==
                    Dollars(estimate_transport_cost(row1.Location, row2.Location))
                net_profit == profit - transport_cost
            IN
            IF IsViable(net_profit)
            THEN [outcome |-> "append",
                  row |-> [buy_location |-> row1.Location,
                           buy_price |-> buy_price,
                           sell_location |-> row2.Location,
                           sell_price |-> sell_price,
                           net_profit |-> Round2(net_profit),
                           risk_score |-> risk_score,
                           timestamp |-> t]]
            ELSE [outcome |-> "none", row |-> NoRow]
        ELSE [outcome |-> "none", row |-> NoRow]

(* The double loop over latest_prices.iterrows(): pair k of n * n is       *)
(* (row a, row b) in loop order; i != j compares the index labels.         *)
RECURSIVE ScanFrom(_, _, _, _)
ScanFrom(df, latest, t, k) ==
    LET n == Len(latest)
        i == latest[((k - 1) \div n) + 1]
        j == latest[((k - 1) % n) + 1]
        step == PairStep(df[i], df[j], t)
    IN  IF k > n * n THEN <<>>
        ELSE (IF i # j /\ step.outcome = "append" THEN <<step.row>> ELSE <<>>)
             \o ScanFrom(df, latest, t, k + 1)

ScanRaises(df, latest) ==
    \E a, b \in 1..Len(latest) :
        /\ latest[a] # latest[b]
        /\ PairStep(df[latest[a]], df[latest[b]], 0).outcome = "ZeroDivisionError"

(* mutant: a sort that reverses the rows of equal net profit *)
Mutant_SortBefore_Unstable(opps, i, j) ==
    \/ opps[i].net_profit > opps[j].net_profit
    \/ opps[i].net_profit = opps[j].net_profit /\ i > j

(* mutant: reverse=True is missing *)
Mutant_SortByProfit_Ascending(opps) ==
    LET rank == [i \in 1..Len(opps) |->
                    Cardinality({j \in 1..Len(opps) :
                        \/ opps[j].net_profit < opps[i].net_profit
                        \/ opps[j].net_profit = opps[i].net_profit /\ j < i})]
    IN  [p \in 1..Len(opps) |-> opps[CHOOSE i \in 1..Len(opps) : rank[i] = p - 1]]

(* opportunities.sort(key=lambda x: x[4], reverse=True): stable, so rows   *)
(* of equal net profit keep the order of the scan.                         *)
SortBefore(opps, i, j) ==
    \/ opps[i].net_profit > opps[j].net_profit
    \/ opps[i].net_profit = opps[j].net_profit /\ i < j

SortByProfit(opps) ==
    LET rank == [i \in 1..Len(opps) |->
                    Cardinality({j \in 1..Len(opps) : SortBefore(opps, j, i)})]
    IN  [p \in 1..Len(opps) |-> opps[CHOOSE i \in 1..Len(opps) : rank[i] = p - 1]]

(* The value the call returns, or the exception that leaves it.            *)
Returns(value) == [raised |-> "", value |-> value]
Raises(exception) == [raised |-> exception, value |-> <<>>]

(* mutant: the except clause is missing, a ValueError leaves the call *)
Mutant_detect_arbitrage_opportunities_NoExcept(df, stable, t) ==
    IF Len(df) < 2 THEN Returns(<<>>)
    ELSE IF \E i \in 1..Len(df) : ~df[i].Date.numeric
    THEN Raises("ValueError")
    ELSE
      LET latest == latest_prices(df, stable)
          opportunities == ScanFrom(df, latest, t, 1)
      IN  IF \E a, b \in 1..Len(latest) :
                 /\ latest[a] # latest[b]
                 /\ PairStep(df[latest[a]], df[latest[b]], t).outcome = "ValueError"
          THEN Raises("ValueError")
          ELSE IF ScanRaises(df, latest)
          THEN Raises("ZeroDivisionError")
          ELSE Returns(SortByProfit(opportunities))

detect_arbitrage_opportunities(df, stable, t) ==
    IF Len(df) < 2 THEN Returns(<<>>)
    ELSE IF \E i \in 1..Len(df) : ~df[i].Date.numeric
    THEN Raises("ValueError")              \* pd.to_datetime, outside the try
    ELSE
      LET latest == latest_prices(df, stable)
          opportunities == ScanFrom(df, latest, t, 1)
      IN  IF ScanRaises(df, latest)
          THEN Raises("ZeroDivisionError")
          ELSE Returns(SortByProfit(opportunities))

----------------------------------------------------------------------------
(* The worksheets *)

SetupHeader ==
    << "Buy Location", "Buy Price", "Sell Location", "Sell Price",
       "Profit", "Risk Score", "Timestamp" >>

DetectHeader ==
    << "Buy Location", "Buy Price", "Sell Location", "Sell Price",
       "Net Profit", "Risk Score", "Timestamp" >>

(* mutant: every opportunity is appended to the sheet *)
Mutant_SaveToSheet_Uncapped(sheet, result) ==
    IF result.raised = "" /\ result.value # <<>>
    THEN [header |-> DetectHeader, rows |-> result.value]
    ELSE sheet

(* mutant: clear() is missing, the rows are appended under the old ones *)
Mutant_SaveToSheet_NoClear(sheet, result) ==
    IF result.raised = "" /\ result.value # <<>>
    THEN [header |-> DetectHeader,
          rows |-> sheet.rows \o
                   SubSeq(result.value, 1, Min(TopN, Len(result.value)))]
    ELSE sheet

(* mutant: the slice keeps the last 10 opportunities, [-10:] for [:10] *)
Mutant_SaveToSheet_LastTen(sheet, result) ==
    IF result.raised = "" /\ result.value # <<>>
    THEN [header |-> DetectHeader,
          rows |-> SubSeq(result.value,
                          Max(1, Len(result.value) - TopN + 1),
                          Len(result.value))]
    ELSE sheet

(* mutant: the sheet is cleared and re-headed also for an empty result *)
Mutant_SaveToSheet_ClearsWhenEmpty(sheet, result) ==
    IF result.raised = ""
    THEN [header |-> DetectHeader,
          rows |-> SubSeq(result.value, 1, Min(TopN, Len(result.value)))]
    ELSE sheet

(* if opportunities: clear(), update('A1:G1', header),                     *)
(* append_rows(opportunities[:10])                                         *)
SaveToSheet(sheet, result) ==
    IF result.raised = "" /\ result.value # <<>>
    THEN [header |-> DetectHeader,
          rows |-> SubSeq(result.value, 1, Min(TopN, Len(result.value)))]
    ELSE sheet

----------------------------------------------------------------------------
(* Rows that reach the RawData sheet by appends *)

AppendQuotes ==
    { <<"Central Valley", 100>>, <<"Central Valley", 300>>,
      <<"Bay Area", 300>>, <<"Mojave", 100>> }

AppendDates == {1, 2}

AppendRows ==
    { Row(q[1], Num(Dollars(q[2])), Num(1000), Num(d)) :
        q \in AppendQuotes, d \in AppendDates }

----------------------------------------------------------------------------
(* The state machine *)

(* The two invocations of the concurrent runs *)
Procs == {"a", "b"}

(* The Dashboard worksheet before update_dashboard has written to it *)
EmptyDashboard == [metrics |-> <<>>, top |-> <<>>]

(* The dict run_full_cycle returns; ran is FALSE before the first call *)
NoCycle ==
    [ran |-> FALSE, success |-> FALSE, error |-> "",
     data_points |-> 0, opportunities |-> 0]

(* mutant: the dict reports the rows written to the sheet, not the list *)
Mutant_CycleDone_SheetRows(data_points, opportunities) ==
    [ran |-> TRUE, success |-> TRUE, error |-> "",
     data_points |-> data_points,
     opportunities |-> IF opportunities <= 10 THEN opportunities ELSE 10]

CycleDone(data_points, opportunities) ==
    [ran |-> TRUE, success |-> TRUE, error |-> "",
     data_points |-> data_points, opportunities |-> opportunities]

CycleFailed(exception) ==
    [ran |-> TRUE, success |-> FALSE, error |-> exception,
     data_points |-> 0, opportunities |-> 0]

(* no agent call has been made *)
NoCall == [op |-> ""]

InitFrame ==
    /\ relevance = NoCall
    /\ intelligence = NoCall
    /\ veles = NoCall
    /\ dashboard_sheet = EmptyDashboard
    /\ aianalysis_sheet = <<>>
    /\ quotes = <<>>
    /\ pc = [p \in Procs |-> "idle"]
    /\ local = [p \in Procs |-> Returns(<<>>)]
    /\ cycle = NoCycle

Init ==
    /\ rawdata = <<>>
    /\ opportunities_sheet = [header |-> SetupHeader, rows |-> <<>>]
    /\ returned = Returns(<<>>)
    /\ calls = 0
    /\ now = 1
    /\ stable_sort \in BOOLEAN
    /\ InitFrame

(* A row is appended to RawData (rawdata_sheet.append_rows, or an edit of  *)
(* the shared sheet).                                                      *)
AppendRow ==
    /\ Len(rawdata) < MaxRecords
    /\ \E r \in AppendRows : rawdata' = Append(rawdata, r)
    /\ returned' = Returns(<<>>)
    /\ calls' = 0
    /\ UNCHANGED <<opportunities_sheet, now, stable_sort>>
    /\ UNCHANGED frame

(* mutant: the opportunities list outlives the call and is never cleared *)
Mutant_Detect_Accumulating ==
    /\ \E t \in now..MaxClock :
         LET result == detect_arbitrage_opportunities(rawdata, stable_sort, t)
             kept == IF result.raised = ""
                     THEN Returns(returned.value \o result.value)
                     ELSE result
         IN
         /\ returned' = kept
         /\ opportunities_sheet' = SaveToSheet(opportunities_sheet, kept)
         /\ now' = t
    /\ calls' = Min(calls + 1, MaxCalls)
    /\ UNCHANGED <<rawdata, stable_sort>>
    /\ UNCHANGED frame

(* One call of detect_arbitrage_opportunities at clock t.                  *)
Detect ==
    /\ \E t \in now..MaxClock :
         LET result == detect_arbitrage_opportunities(rawdata, stable_sort, t) IN
         /\ returned' = result
         /\ opportunities_sheet' = SaveToSheet(opportunities_sheet, result)
         /\ now' = t
    /\ calls' = Min(calls + 1, MaxCalls)
    /\ UNCHANGED <<rawdata, stable_sort>>
    /\ UNCHANGED frame

Next == AppendRow \/ Detect

Spec == Init /\ [][Next]_vars

----------------------------------------------------------------------------
(* Detection over snapshots: the sheet content is drawn at the start (one  *)
(* row per location, dated in sheet order, so no two rows share a Date and *)
(* the tie order of the build plays no part) and detection is applied      *)
(* once, with the clock at its last value.                                 *)

(* Prices in units of 0.002: 0, 100, 150, 150.004, 300, 450, 600, 660.     *)
ScanPrices ==
    { 0, Dollars(100), Dollars(150), Dollars(150) + 2, Dollars(300),
      Dollars(450), Dollars(600), Dollars(660) }

ScanVolumes == {300, 1000}

ScanLocations ==
    { <<"Central Valley", "Bay Area", "Mojave">>,
      <<"Bay Area", "Imperial Valley", "Mojave">> }

ScanSheets ==
    { [k \in 1..3 |-> Row(ls[k], Num(ps[k]), Num(vs[k]), Num(k))] :
        ls \in ScanLocations,
        ps \in [1..3 -> ScanPrices],
        vs \in [1..3 -> ScanVolumes] }

(* Wide snapshots: NumWide locations on a price ladder, 100 k or 100 k + 50 *)
WideSheets ==
    { [k \in 1..NumWide |->
          Row(LocationNames[k], Num(Dollars(100 * k) + Dollars(50) * up[k]),
              Num(1000), Num(k))] :
        up \in [1..NumWide -> {0, 1}] }

InitScan ==
    /\ rawdata \in ScanSheets \cup WideSheets
    /\ opportunities_sheet = [header |-> SetupHeader, rows |-> <<>>]
    /\ returned = Returns(<<>>)
    /\ calls = 0
    /\ now = MaxClock
    /\ stable_sort = TRUE
    /\ InitFrame

NextScan == calls = 0 /\ Detect

SpecScan == InitScan /\ [][NextScan]_vars

----------------------------------------------------------------------------
(* Detection over sheets with a bad record: up to three rows, several of   *)
(* them possibly of one location and of one Date, and at most one cell     *)
(* that holds text float(), int() or pd.to_datetime() cannot parse.        *)

BadLocations ==
    { <<"Central Valley", "Southern CA", "Bay Area">>,
      <<"Central Valley", "Central Valley", "Southern CA">>,
      <<"Central Valley", "Southern CA", "Central Valley">>,
      <<"Central Valley", "Central Valley", "Central Valley">> }

BadPrices == { Dollars(200), Dollars(300), Dollars(700) }

BadVolumes == { <<1000, 1000, 1000>>, <<300, 1000, 300>> }

BadDates == { <<1, 2, 3>>, <<2, 1, 1>>, <<1, 1, 1>> }

Fields == {"Price", "Volume", "Date"}

GoodSheets ==
    { [k \in DOMAIN ls |-> Row(ls[k], Num(ps[k]), Num(vs[k]), Num(ds[k]))] :
        ls \in BadLocations,
        ps \in [1..3 -> BadPrices],
        vs \in BadVolumes,
        ds \in BadDates }

(* the first n rows of the sheet *)
Prefix(df, n) == SubSeq(df, 1, Min(n, Len(df)))

(* the sheet with text in one cell *)
Spoil(df, k, field) == [df EXCEPT ![k] = [df[k] EXCEPT ![field] = Text]]

BadSheets ==
    { Prefix(df, n) : df \in GoodSheets, n \in 0..3 }
    \cup { Spoil(Prefix(df, n), k, f) :
              df \in GoodSheets, n \in 2..3, k \in 1..2, f \in Fields }
    \cup { Spoil(df, Len(df), f) : df \in GoodSheets, f \in Fields }

InitBad ==
    /\ rawdata \in BadSheets
    /\ opportunities_sheet = [header |-> SetupHeader, rows |-> <<>>]
    /\ returned = Returns(<<>>)
    /\ calls = 0
    /\ now = MaxClock
    /\ stable_sort \in BOOLEAN
    /\ InitFrame

NextBad == calls = 0 /\ Detect

SpecBad == InitBad /\ [][NextBad]_vars

----------------------------------------------------------------------------
(* The transport cost model on its own: estimate_transport_cost is called  *)
(* for any two of the location names and the call is recorded.             *)

Locations == {LocationNames[k] : k \in 1..Len(LocationNames)}

EstimateTransport ==
    /\ Len(quotes) < MaxQuotes
    /\ \E from_location, to_location \in Locations :
         quotes' = Append(quotes,
                          [from |-> from_location, to |-> to_location,
                           cost |-> estimate_transport_cost(from_location,
                                                            to_location)])
    /\ UNCHANGED <<rawdata, opportunities_sheet, returned, calls, now,
                   stable_sort, dashboard_sheet, aianalysis_sheet, pc, local,
                   cycle>>
    /\ UNCHANGED agents

NextTransport == EstimateTransport

SpecTransport == Init /\ [][NextTransport]_vars

----------------------------------------------------------------------------
(* The life of the workbook: construction, collect_water_data,             *)
(* detect_arbitrage_opportunities, update_dashboard and run_full_cycle.    *)

(* __init__: without a sheet URL or an OpenAI key ValueError is raised     *)
(* before the workbook is opened; otherwise setup_sheets finds the         *)
(* worksheets (or adds them, empty) and writes the two header rows, which  *)
(* leaves the rows below row 1 as they are.                                *)
Credentials == {"", "set"}

setup_sheets(sheet) == [sheet EXCEPT !.header = SetupHeader]

Construct ==
    /\ \E sheet_url, openai_key \in Credentials :
         opportunities_sheet' =
            IF sheet_url = "" \/ openai_key = ""
            THEN opportunities_sheet
            ELSE setup_sheets(opportunities_sheet)
    /\ UNCHANGED <<rawdata, returned, calls, now, stable_sort>>
    /\ UNCHANGED frame

(* collect_water_data: base_data, the prices in dollars *)
base_data ==
    << [location |-> "Central Valley", base_price |-> 450, volume |-> 1000],
       [location |-> "Southern CA", base_price |-> 680, volume |-> 800],
       [location |-> "Bay Area", base_price |-> 750, volume |-> 600],
       [location |-> "Sacramento Valley", base_price |-> 520, volume |-> 900],
       [location |-> "Imperial Valley", base_price |-> 380, volume |-> 1200] >>

(* random.uniform(0.9, 1.1) of the five items, in percent *)
Variations ==
    { <<100, 100, 100, 100, 100>>, <<110, 90, 90, 110, 90>> }

(* round(base_price * variation, 2): with a variation in whole percent the *)
(* product has at most 2 decimals.                                         *)
current_price(item, variation) ==
    (Dollars(item.base_price) * variation) \div 100

(* The rows of one call: the clock is read once per item, t1 for the first *)
(* k items and t2 for the others.                                          *)
current_data(variation, k, t1, t2) ==
    [n \in 1..Len(base_data) |->
        Row(base_data[n].location,
            Num(current_price(base_data[n], variation[n])),
            Num(base_data[n].volume),
            Num(IF n <= k THEN t1 ELSE t2))]

(* The items after which the clock may pass from t1 to t2 *)
Ticks(t1, t2) == IF t1 = t2 THEN {Len(base_data)} ELSE {2, 4}

(* mutant: the rows are written over the sheet instead of appended *)
Mutant_Collect_Overwrite ==
    /\ Len(rawdata) + Len(base_data) <= MaxCollects * Len(base_data)
    /\ \E variation \in Variations :
         \E t1 \in now..MaxClock :
           \E t2 \in t1..MaxClock :
             \E k \in Ticks(t1, t2) :
               /\ rawdata' = current_data(variation, k, t1, t2)
               /\ now' = t2
    /\ returned' = Returns(<<>>)
    /\ calls' = 0
    /\ UNCHANGED <<opportunities_sheet, stable_sort>>
    /\ UNCHANGED frame

Collect ==
    /\ Len(rawdata) + Len(base_data) <= MaxCollects * Len(base_data)
    /\ \E variation \in Variations :
         \E t1 \in now..MaxClock :
           \E t2 \in t1..MaxClock :
             \E k \in Ticks(t1, t2) :
               /\ rawdata' = rawdata \o current_data(variation, k, t1, t2)
               /\ now' = t2
    /\ returned' = Returns(<<>>)
    /\ calls' = 0
    /\ UNCHANGED <<opportunities_sheet, stable_sort>>
    /\ UNCHANGED frame

(* f"{x:.0f}" of the quotient num / den of two naturals; the sheets of the *)
(* model give no quotient that ends in .5                                  *)
Format0(num, den) == (2 * num + den) \div (2 * den)

RECURSIVE SumOf(_, _)
SumOf(f, n) == IF n = 0 THEN 0 ELSE f[n] + SumOf(f, n - 1)

(* update_dashboard at clock t: the Dashboard sheet it leaves and the      *)
(* exception that leaves it ("" for none). The metrics are computed before *)
(* the sheet is cleared; the top opportunity is read by the column names   *)
(* of the Opportunities header, so 'Net Profit' is a KeyError under the    *)
(* header setup_sheets writes.                                             *)
update_dashboard(all_data, opps_sheet, dashboard, t) ==
    IF all_data = <<>> THEN [raised |-> "", sheet |-> dashboard]
    ELSE IF \E k \in 1..Len(all_data) :
               ~all_data[k].Price.numeric \/ ~all_data[k].Volume.numeric
    THEN [raised |-> "ValueError", sheet |-> dashboard]
    ELSE
      LET n == Len(all_data)
          price == [k \in 1..n |-> all_data[k].Price.val]
          volume == [k \in 1..n |-> all_data[k].Volume.val]
          high == CHOOSE p \in {price[k] : k \in 1..n} :
                      \A k \in 1..n : price[k] <= p
          low == CHOOSE p \in {price[k] : k \in 1..n} :
                      \A k \in 1..n : price[k] >= p
          metrics ==
              [active_markets |->
                   Cardinality({all_data[k].Location : k \in 1..n}),
               average_price |-> Format0(SumOf(price, n), n * UnitsPerDollar),
               price_spread |-> Format0(high - low, UnitsPerDollar),
               total_volume |-> SumOf(volume, n),
               active_opportunities |-> Len(opps_sheet.rows),
               last_updated |-> t]
          top_opp == opps_sheet.rows[1]
      IN  IF opps_sheet.rows = <<>>
          THEN [raised |-> "", sheet |-> [metrics |-> metrics, top |-> <<>>]]
          ELSE IF opps_sheet.header # DetectHeader
          THEN [raised |-> "KeyError",
                sheet |-> [metrics |-> metrics, top |-> <<>>]]
          ELSE [raised |-> "",
                sheet |-> [metrics |-> metrics,
                           top |-> [buy |-> <<top_opp.buy_location,
                                              top_opp.buy_price>>,
                                    sell |-> <<top_opp.sell_location,
                                               top_opp.sell_price>>,
                                    profit |-> top_opp.net_profit,
                                    risk |-> top_opp.risk_score \div 10,
                                    updated |-> top_opp.timestamp]]]

UpdateDashboard ==
    /\ \E t \in now..MaxClock :
         /\ dashboard_sheet' =
               update_dashboard(rawdata, opportunities_sheet,
                                dashboard_sheet, t).sheet
         /\ now' = t
    /\ UNCHANGED <<rawdata, opportunities_sheet, returned, calls, stable_sort,
                   aianalysis_sheet, quotes, pc, local, cycle>>
    /\ UNCHANGED agents

(* analyze_with_ai at clock t: the completion either succeeds, and a row  *)
(* [timestamp, analysis] is appended to AIAnalysis, or fails, and the      *)
(* except clause returns the error message.                                *)
analyze_with_ai(sheet, ok, t) ==
    IF ok THEN Append(sheet, [timestamp |-> t]) ELSE sheet

(* recent_data of analyze_with_ai: the last 20 records *)
RecentRecords == 20

(* The summary statistics of analyze_with_ai (lines 118-122) are computed  *)
(* outside its try block: groupby(...).agg of mean and sum raises          *)
(* TypeError when a Price or Volume of the recent records is text.         *)
SummaryRaises(all_data) ==
    \E n \in 1..Len(all_data) :
        /\ n > Len(all_data) - RecentRecords
        /\ ~all_data[n].Price.numeric \/ ~all_data[n].Volume.numeric

(* run_full_cycle: collect, analyze, detect, update the dashboard, report; *)
(* an exception of a step skips the steps after it and is caught at line   *)
(* 347, and the call returns the dict of line 339 or the one of line 350.  *)
RunFullCycle ==
    /\ Len(rawdata) + Len(base_data) <= MaxCollects * Len(base_data)
    /\ \E variation \in Variations :
         \E t1 \in now..MaxClock :
          \E t2 \in t1..MaxClock :
           \E k \in Ticks(t1, t2) :
            LET water_data == current_data(variation, k, t1, t2)
                all_data == rawdata \o water_data
            IN
            /\ rawdata' = all_data
            /\ IF SummaryRaises(all_data)
               THEN /\ cycle' = CycleFailed("TypeError")
                    /\ returned' = Returns(<<>>)
                    /\ calls' = 0
                    /\ now' = t2
                    /\ UNCHANGED <<opportunities_sheet, aianalysis_sheet,
                                   dashboard_sheet>>
               ELSE
                 \E t4 \in t2..MaxClock :
                   LET result == detect_arbitrage_opportunities(all_data,
                                                                stable_sort, t4)
                       saved == SaveToSheet(opportunities_sheet, result)
                   IN
                   /\ returned' = result
                   /\ calls' = 1
                   /\ opportunities_sheet' = saved
                   /\ \E ok \in BOOLEAN :
                        \E t3 \in t2..t4 :
                          aianalysis_sheet' =
                             analyze_with_ai(aianalysis_sheet, ok, t3)
                   /\ IF result.raised # ""
                      THEN /\ cycle' = CycleFailed(result.raised)
                           /\ now' = t4
                           /\ UNCHANGED dashboard_sheet
                      ELSE
                        \E t5 \in t4..MaxClock :
                          LET board == update_dashboard(all_data, saved,
                                                        dashboard_sheet, t5)
                          IN
                          /\ dashboard_sheet' = board.sheet
                          /\ now' = t5
                          /\ cycle' =
                                IF board.raised # ""
                                THEN CycleFailed(board.raised)
                                ELSE CycleDone(Len(water_data),
                                               Len(result.value))
    /\ UNCHANGED <<stable_sort, quotes, pc, local>>
    /\ UNCHANGED agents

NextCycle ==
    \/ Construct
    \/ Collect
    \/ Detect
    \/ UpdateDashboard
    \/ RunFullCycle

SpecCycle == Init /\ [][NextCycle]_vars

----------------------------------------------------------------------------
(* Two detect_arbitrage_opportunities invocations on one workbook, each    *)
(* sheet request a step of its own: get_all_records and the scan (173-219),*)
(* clear (223), update of A1:G1 (224) and append_rows (225).               *)
(* A sheet record with header <<>> is a sheet whose row 1 is not a header: *)
(* its rows start at row 1.                                                *)

clear(sheet) == [header |-> <<>>, rows |-> <<>>]

(* update('A1:G1', ...) writes row 1, over whatever row 1 holds *)
update_header(sheet) ==
    [header |-> DetectHeader,
     rows |-> IF sheet.header = <<>> /\ sheet.rows # <<>>
              THEN Tail(sheet.rows) ELSE sheet.rows]

(* append_rows writes under the last row of the sheet *)
append_rows(sheet, values) == [sheet EXCEPT !.rows = @ \o values]

DetectScan(p) ==
    /\ pc[p] = "idle"
    /\ \E t \in now..MaxClock :
         LET result == detect_arbitrage_opportunities(rawdata, stable_sort, t)
         IN  /\ local' = [local EXCEPT ![p] = result]
             /\ pc' = [pc EXCEPT ![p] =
                          IF result.raised = "" /\ result.value # <<>>
                          THEN "clear" ELSE "done"]
             /\ now' = t
    /\ UNCHANGED <<rawdata, opportunities_sheet, returned, calls, stable_sort,
                   dashboard_sheet, aianalysis_sheet, quotes, cycle>>
    /\ UNCHANGED agents

DetectClear(p) ==
    /\ pc[p] = "clear"
    /\ opportunities_sheet' = clear(opportunities_sheet)
    /\ pc' = [pc EXCEPT ![p] = "update"]
    /\ UNCHANGED <<rawdata, returned, calls, now, stable_sort,
                   dashboard_sheet, aianalysis_sheet, quotes, local, cycle>>
    /\ UNCHANGED agents

DetectUpdate(p) ==
    /\ pc[p] = "update"
    /\ opportunities_sheet' = update_header(opportunities_sheet)
    /\ pc' = [pc EXCEPT ![p] = "append"]
    /\ UNCHANGED <<rawdata, returned, calls, now, stable_sort,
                   dashboard_sheet, aianalysis_sheet, quotes, local, cycle>>
    /\ UNCHANGED agents

DetectAppend(p) ==
    /\ pc[p] = "append"
    /\ opportunities_sheet' =
          append_rows(opportunities_sheet,
                      SubSeq(local[p].value, 1,
                             Min(TopN, Len(local[p].value))))
    /\ pc' = [pc EXCEPT ![p] = "done"]
    /\ UNCHANGED <<rawdata, returned, calls, now, stable_sort,
                   dashboard_sheet, aianalysis_sheet, quotes, local, cycle>>
    /\ UNCHANGED agents

(* RawData of the concurrent runs: empty, or the rows of one collect *)
ConcurrentSheets ==
    {<<>>} \cup {current_data(v, Len(base_data), 1, 1) : v \in Variations}

InitConcurrent ==
    /\ rawdata \in ConcurrentSheets
    /\ opportunities_sheet = [header |-> SetupHeader, rows |-> <<>>]
    /\ returned = Returns(<<>>)
    /\ calls = 0
    /\ now = 1
    /\ stable_sort \in BOOLEAN
    /\ InitFrame

NextConcurrent ==
    \E p \in Procs :
        \/ DetectScan(p)
        \/ DetectClear(p)
        \/ DetectUpdate(p)
        \/ DetectAppend(p)

SpecConcurrent == InitConcurrent /\ [][NextConcurrent]_vars

----------------------------------------------------------------------------
(* The Opportunities sheet over several cycles: rows are appended to       *)
(* RawData one by one, or RawData holds the price ladder of NumWide        *)
(* locations from the start, and detections, dashboard updates and         *)
(* constructions of the system follow one another.                         *)

Ladder ==
    [k \in 1..NumWide |->
        Row(LocationNames[k], Num(Dollars(100 * k)), Num(1000), Num(k))]

(* The records that are appended one by one: two locations whose prices   *)
(* make an opportunity, then a record that takes it away (the buy price    *)
(* rises to the sell price) or one that adds a second opportunity.         *)
Recordings ==
    LET r(l, p, d) == Row(l, Num(Dollars(p)), Num(1000), Num(d))
    IN  { << r("Central Valley", 100, 1), r("Bay Area", 300, 1),
             r("Central Valley", 300, 2) >>,
          << r("Central Valley", 100, 1), r("Bay Area", 300, 1),
             r("Mojave", 100, 2) >> }

RecordedSheets ==
    { SubSeq(rs, 1, n) : rs \in Recordings, n \in 1..3 }

InitSheet ==
    /\ rawdata \in {<<>>, Ladder}
    /\ opportunities_sheet = [header |-> SetupHeader, rows |-> <<>>]
    /\ returned = Returns(<<>>)
    /\ calls = 0
    /\ now = 1
    /\ stable_sort \in BOOLEAN
    /\ InitFrame

NextSheet ==
    \/ AppendRow /\ rawdata' \in RecordedSheets
    \/ Detect
    \/ UpdateDashboard
    \/ Construct

SpecSheet == InitSheet /\ [][NextSheet]_vars

----------------------------------------------------------------------------
(* run_full_cycle on a workbook whose RawData is empty or holds one record *)
(* of a sixth location: a usable one, one with price 0, one with a         *)
(* timestamp that does not parse, one with a price that is text.           *)

RunSeeds ==
    { <<>>,
      << Row("Mojave", Num(Dollars(100)), Num(1000), Num(1)) >>,
      << Row("Mojave", Num(0), Num(1000), Num(1)) >>,
      << Row("Mojave", Num(Dollars(100)), Num(1000), Text) >>,
      << Row("Mojave", Text, Num(1000), Num(1)) >> }

InitRun ==
    /\ rawdata \in RunSeeds
    /\ opportunities_sheet = [header |-> SetupHeader, rows |-> <<>>]
    /\ returned = Returns(<<>>)
    /\ calls = 0
    /\ now = 1
    /\ stable_sort \in BOOLEAN
    /\ InitFrame

NextRun == RunFullCycle

SpecRun == InitRun /\ [][NextRun]_vars

----------------------------------------------------------------------------
(* Vocabulary of the claims *)

Called == calls > 0
Returned == Called /\ returned.raised = ""
Opps == returned.value
Latest == latest_prices(rawdata, stable_sort)
LatestRows == {rawdata[Latest[k]] : k \in 1..Len(Latest)}
IsPair(opp, buy, sell) ==
    opp.buy_location = buy.Location /\ opp.sell_location = sell.Location
Gross(buy, sell) == sell.Price.val - buy.Price.val
Net(buy, sell) ==
    Gross(buy, sell) - Dollars(estimate_transport_cost(buy.Location, sell.Location))

(* C1: when every location's latest record has a numeric positive price    *)
(* and a numeric volume, the call returns one opportunity for an ordered   *)
(* pair of distinct locations exactly when gross > 50, margin > 10 % and   *)
(* net > 20, and nothing else.                                             *)
C1_Usable(rows) ==
    \A r \in rows : r.Price.numeric /\ r.Price.val > 0 /\ r.Volume.numeric

C1_Qualifies(buy, sell) ==
    /\ Gross(buy, sell) > Dollars(50)
    /\ Gross(buy, sell) * 100 > 10 * buy.Price.val
    /\ Net(buy, sell) > Dollars(20)

C1_ThresholdsDecide ==
    Called =>
      LET rows == LatestRows
          opps == Opps
      IN  C1_Usable(rows) =>
            /\ returned.raised = ""
            /\ \A buy, sell \in rows :
                 buy.Location # sell.Location =>
                    Cardinality({k \in 1..Len(opps) : IsPair(opps[k], buy, sell)}) =
                        (IF C1_Qualifies(buy, sell) THEN 1 ELSE 0)
            /\ \A k \in 1..Len(opps) :
                 \E buy, sell \in rows :
                    buy.Location # sell.Location /\ IsPair(opps[k], buy, sell)

C1_Witness ==
    /\ Called
    /\ LET rows == LatestRows
           opps == Opps
       IN  /\ C1_Usable(rows)
           /\ \E buy, sell \in rows : C1_Qualifies(buy, sell)
           /\ \E buy, sell \in rows :
                /\ Gross(buy, sell) > Dollars(50)
                /\ Gross(buy, sell) * 100 > 10 * buy.Price.val
                /\ Net(buy, sell) <= Dollars(20)
                /\ \A k \in 1..Len(opps) : ~IsPair(opps[k], buy, sell)

(* C2 as claimed: every returned opportunity's stored net_profit (rounded  *)
(* to 2 decimals) is strictly greater than 20.                             *)
C2_StoredNetAbove20 ==
    Returned => \A k \in 1..Len(Opps) : Opps[k].net_profit > Dollars(20)

(* C2 as amended: every returned opportunity's unrounded net profit is     *)
(* strictly greater than 20 and its stored net_profit is at least 20.      *)
C2_StoredNetAtLeast20 ==
    Returned =>
      LET rows == LatestRows
          opps == Opps
      IN  \A k \in 1..Len(opps) :
            /\ opps[k].net_profit >= Dollars(20)
            /\ \A buy, sell \in rows :
                 IsPair(opps[k], buy, sell) => Net(buy, sell) > Dollars(20)

C2_Witness ==
    /\ Returned
    /\ \E k \in 1..Len(Opps) : Opps[k].net_profit = Dollars(20)
    /\ \E k \in 1..Len(Opps) : Opps[k].net_profit > Dollars(20)

(* C3 as claimed: the returned sequence never has more than 10 entries.    *)
C3_ReturnedAtMost10 == Returned => Len(Opps) <= 10

(* C3 as amended: the rows written to the Opportunities sheet never exceed *)
(* 10; the returned sequence is not capped and holds at most n (n - 1) / 2 *)
(* entries for n locations.                                                *)
C3_SheetAtMost10 ==
    /\ Len(opportunities_sheet.rows) <= 10
    /\ Returned =>
         LET n == Len(Latest) IN 2 * Len(Opps) <= n * (n - 1)

C3_Witness ==
    /\ Returned
    /\ Len(Opps) > 10
    /\ Len(opportunities_sheet.rows) = 10

(* C4: in the returned sequence net_profit is non-increasing.              *)
C4_NonIncreasing ==
    Returned =>
        \A k \in 1..(Len(Opps) - 1) : Opps[k].net_profit >= Opps[k + 1].net_profit

(* the sort had work to do: the scan met a smaller net profit first        *)
C4_Witness ==
    /\ Returned
    /\ Len(Opps) >= 3
    /\ Opps[1].net_profit > Opps[3].net_profit
    /\ ScanFrom(rawdata, Latest, now, 1)[1] # Opps[1]

(* Python's str order on these names, as a rank. *)
LexRank(l) ==
    CASE l = "Bay Area" -> 1
      [] l = "Central Valley" -> 2
      [] l = "Imperial Valley" -> 3
      [] l = "Mojave" -> 4
      [] l = "Owens Valley" -> 5
      [] l = "Sacramento Valley" -> 6
      [] l = "Southern CA" -> 7
      [] l = "Tulare" -> 8

(* Python's tuple order on (buy_location, sell_location)                   *)
LexBefore(x, y) ==
    \/ LexRank(x.buy_location) < LexRank(y.buy_location)
    \/ /\ x.buy_location = y.buy_location
       /\ LexRank(x.sell_location) < LexRank(y.sell_location)

(* The index in rawdata of the latest record the scan holds for a location *)
LatestOf(location) ==
    CHOOSE i \in {Latest[p] : p \in 1..Len(Latest)} : rawdata[i].Location = location

(* The order of the scan: by the buy location's latest record in ascending *)
(* Date, then by the sell location's; records of equal Date in the order   *)
(* the Date sort of the build leaves them in.                              *)
ScanBefore(x, y) ==
    LET bx == LatestOf(x.buy_location)
        by == LatestOf(y.buy_location)
        sx == LatestOf(x.sell_location)
        sy == LatestOf(y.sell_location)
    IN  \/ DateBefore(rawdata, stable_sort, bx, by)
        \/ bx = by /\ DateBefore(rawdata, stable_sort, sx, sy)

(* C5 as claimed: opportunities of equal net_profit are in lexical order   *)
(* of buy_location, then sell_location, whatever the records' order and    *)
(* dates.                                                                  *)
C5_TiesLexical ==
    Returned =>
        \A k \in 1..(Len(Opps) - 1) :
            Opps[k].net_profit = Opps[k + 1].net_profit =>
                LexBefore(Opps[k], Opps[k + 1])

(* C5 as amended: opportunities of equal net_profit keep the order of the  *)
(* scan, which follows the Dates of the latest records of their buy and    *)
(* sell locations, not the location names.                                 *)
C5_TiesInScanOrder ==
    Returned =>
        \A k \in 1..(Len(Opps) - 1) :
            Opps[k].net_profit = Opps[k + 1].net_profit =>
                ScanBefore(Opps[k], Opps[k + 1])

C5_Witness ==
    /\ Returned
    /\ \E k \in 1..(Len(Opps) - 1) :
         /\ Opps[k].net_profit = Opps[k + 1].net_profit
         /\ LexBefore(Opps[k + 1], Opps[k])
         /\ rawdata[LatestOf(Opps[k].sell_location)].Date.val
                < rawdata[LatestOf(Opps[k + 1].sell_location)].Date.val

(* C6 as claimed: when a location's latest price is 0 the call raises      *)
(* nothing, skips the pairs that buy there and returns the opportunities   *)
(* of all other pairs.                                                     *)
C6_ZeroPriceSkipped ==
    Called =>
      LET rows == LatestRows
          opps == Opps
      IN  (/\ \E r \in rows : r.Price.numeric /\ r.Price.val = 0
           /\ \A r \in rows : r.Price.numeric /\ r.Price.val >= 0 /\ r.Volume.numeric)
          =>
            /\ returned.raised = ""
            /\ \A buy, sell \in rows :
                 (buy.Location # sell.Location /\ buy.Price.val # 0) =>
                    ((\E k \in 1..Len(opps) : IsPair(opps[k], buy, sell))
                        <=> C1_Qualifies(buy, sell))

Untimed(opps) == [k \in 1..Len(opps) |-> [opps[k] EXCEPT !.timestamp = 0]]

C8_LastInserted(location) ==
    CHOOSE i \in 1..Len(rawdata) :
        /\ rawdata[i].Location = location
        /\ \A j \in 1..Len(rawdata) :
             rawdata[j].Location = location =>
                \/ rawdata[j].Date.val < rawdata[i].Date.val
                \/ rawdata[j].Date.val = rawdata[i].Date.val /\ j <= i

(* C8 as claimed: the prices of every opportunity are those of the record  *)
(* with the greatest Date of its location, the last inserted one when      *)
(* several share that Date.                                                *)
C8_LatestWins ==
    Returned =>
        \A k \in 1..Len(Opps) :
            /\ Opps[k].buy_price =
                    rawdata[C8_LastInserted(Opps[k].buy_location)].Price.val
            /\ Opps[k].sell_price =
                    rawdata[C8_LastInserted(Opps[k].sell_location)].Price.val

(* The drought risks (tenths) and the risk score (thousandths) as the      *)
(* claim states them.                                                      *)
C9_Drought(location) ==
    CASE location = "Central Valley" -> 7
      [] location = "Southern CA" -> 8
      [] location = "Bay Area" -> 3
      [] location = "Sacramento Valley" -> 5
      [] location = "Imperial Valley" -> 6
      [] OTHER -> 5

C9_Risk(buy, sell) ==
    LET sum == 100
               + (IF Gross(buy, sell) * 100 > 50 * buy.Price.val THEN 300 ELSE 0)
               + (IF buy.Volume.val < 500 THEN 200 ELSE 0)
               + 15 * (C9_Drought(buy.Location) + C9_Drought(sell.Location))
    IN  IF sum < 1000 THEN sum ELSE 1000

(* C9 as claimed: every opportunity's risk_score equals                    *)
(* min(0.1 + 0.3 [margin > 50] + 0.2 [buy volume < 500]                    *)
(*     + 0.3 (drought(buy) + drought(sell)) / 2, 1.0),                     *)
(* drought 0.5 for a location the weather table lacks.                     *)
C9_RiskFormula ==
    Returned =>
      LET rows == LatestRows
          opps == Opps
      IN  \A k \in 1..Len(opps) : \A buy, sell \in rows :
            IsPair(opps[k], buy, sell) => opps[k].risk_score = C9_Risk(buy, sell)

(* C9 as amended: every opportunity's risk_score is that value rounded to  *)
(* 2 decimals (a multiple of 0.01 within 0.005 of it).                     *)
C9_RiskFormulaRounded ==
    Returned =>
      LET rows == LatestRows
          opps == Opps
      IN  \A k \in 1..Len(opps) : \A buy, sell \in rows :
            IsPair(opps[k], buy, sell) =>
                /\ opps[k].risk_score % 10 = 0
                /\ opps[k].risk_score - C9_Risk(buy, sell) \in -5..5

(* a score that is rounded, a buy location the weather table lacks, and a  *)
(* low-volume sell location next to a high-volume buy location             *)
C9_Witness ==
    /\ Returned
    /\ LET rows == LatestRows
           opps == Opps
       IN  /\ \E k \in 1..Len(opps) : \E buy, sell \in rows :
                /\ IsPair(opps[k], buy, sell)
                /\ opps[k].risk_score # C9_Risk(buy, sell)
           /\ \E k \in 1..Len(opps) : \E buy, sell \in rows :
                /\ IsPair(opps[k], buy, sell)
                /\ buy.Location = "Mojave"
                /\ buy.Volume.val >= 500 /\ sell.Volume.val < 500

(* The transport cost (currency units) as the claim states it: the modeled *)
(* cost of the pair, looked up in either order, or 30.                     *)
C10_Transport(a, b) ==
    CASE {a, b} = {"Central Valley", "Bay Area"} -> 25
      [] {a, b} = {"Central Valley", "Southern CA"} -> 35
      [] {a, b} = {"Imperial Valley", "Southern CA"} -> 20
      [] {a, b} = {"Imperial Valley", "Bay Area"} -> 45
      [] {a, b} = {"Sacramento Valley", "Bay Area"} -> 30
      [] {a, b} = {"Sacramento Valley", "Southern CA"} -> 40
      [] OTHER -> 30

C10_Net(opp) ==
    opp.sell_price - opp.buy_price
        - Dollars(C10_Transport(opp.buy_location, opp.sell_location))

C10_LatestPrices(opp, rows) ==
    \E buy, sell \in rows :
        /\ IsPair(opp, buy, sell)
        /\ opp.buy_price = buy.Price.val
        /\ opp.sell_price = sell.Price.val

(* C10 as claimed: buy_price and sell_price are the latest prices of the   *)
(* two locations and net_profit = sell_price - buy_price - transport cost. *)
C10_NetProfitExact ==
    Returned =>
      LET rows == LatestRows
          opps == Opps
      IN  \A k \in 1..Len(opps) :
            /\ C10_LatestPrices(opps[k], rows)
            /\ opps[k].net_profit = C10_Net(opps[k])

(* C10 as amended: net_profit is that difference rounded to 2 decimals     *)
(* (a multiple of 0.01 less than 0.005 from it).                           *)
C10_NetProfitRounded ==
    Returned =>
      LET rows == LatestRows
          opps == Opps
      IN  \A k \in 1..Len(opps) :
            /\ C10_LatestPrices(opps[k], rows)
            /\ opps[k].net_profit % UnitsPerCent = 0
            /\ 2 * (opps[k].net_profit - C10_Net(opps[k]))
                    \in (1 - UnitsPerCent)..(UnitsPerCent - 1)

(* a rounded net profit, and a pair the matrix holds in the other order    *)
C10_Witness ==
    /\ Returned
    /\ \E k \in 1..Len(Opps) : Opps[k].net_profit # C10_Net(Opps[k])
    /\ \E k \in 1..Len(Opps) :
         /\ Opps[k].buy_location = "Bay Area"
         /\ Opps[k].sell_location = "Central Valley"

----------------------------------------------------------------------------
(* the sheet without the records of location l *)
Without(df, l) == SelectSeq(df, LAMBDA r : r.Location # l)

DatesParse == \A k \in 1..Len(rawdata) : rawdata[k].Date.numeric

(* C11: a location whose latest price is not a number (its timestamps      *)
(* being parseable) appears in no returned opportunity, as buy or as sell, *)
(* the call returns normally, and what it returns is what it returns on    *)
(* the sheet without any record of that location.                          *)
C11_MalformedPriceExcluded ==
    (Called /\ DatesParse) =>
        LET rows == LatestRows
            res == returned
        IN  \A r \in rows :
                ~r.Price.numeric =>
                    /\ res.raised = ""
                    /\ \A k \in 1..Len(res.value) :
                          /\ res.value[k].buy_location # r.Location
                          /\ res.value[k].sell_location # r.Location
                    /\ res = detect_arbitrage_opportunities(
                                Without(rawdata, r.Location), stable_sort, now)

(* C11 witness: one location's latest price is text and the call returned  *)
(* an opportunity between the two other locations.                         *)
C11_Witness ==
    /\ Called /\ DatesParse
    /\ \E r \in LatestRows : ~r.Price.numeric
    /\ returned.raised = ""
    /\ Len(returned.value) > 0

----------------------------------------------------------------------------
BadRecord(r) == ~r.Price.numeric \/ ~r.Volume.numeric \/ ~r.Date.numeric

(* C12: when exactly one stored record is bad (its price or its volume is  *)
(* not a number, or its timestamp does not parse), the call returns        *)
(* normally: it raises nothing.                                            *)
C12_BadRecordNeverAborts ==
    (/\ Called
     /\ Cardinality({k \in 1..Len(rawdata) : BadRecord(rawdata[k])}) = 1)
        => returned.raised = ""

----------------------------------------------------------------------------
StoredLocations == {rawdata[k].Location : k \in 1..Len(rawdata)}

----------------------------------------------------------------------------
(* C14: every returned opportunity's risk_score lies in [0, 1] (0 to 1000  *)
(* thousandths), whatever the margin, the buy volume and the drought risks *)
(* of the two locations.                                                   *)
C14_RiskInUnitRange ==
    Returned =>
        LET opps == Opps
        IN  \A k \in 1..Len(opps) :
                opps[k].risk_score >= 0 /\ opps[k].risk_score <= 1000

(* C14 witness: the riskiest pair of the sheets, a margin above 50 %, a    *)
(* buy volume under 500 and drought risks 0.7 and 0.8, scored 0.83.        *)
C14_Witness ==
    /\ Returned
    /\ \E k \in 1..Len(Opps) :
         /\ Opps[k].buy_location = "Central Valley"
         /\ Opps[k].sell_location = "Southern CA"
         /\ Opps[k].risk_score = 830

----------------------------------------------------------------------------
(* C15: every returned opportunity buys and sells at different locations,  *)
(* also when the sheet holds several records of one location.              *)
C15_BuyDiffersFromSell ==
    Returned =>
        LET opps == Opps
        IN  \A k \in 1..Len(opps) :
                opps[k].buy_location # opps[k].sell_location

(* C15 witness: a location has two records at prices that would qualify    *)
(* as a pair, and an opportunity has been returned.                        *)
C15_Witness ==
    /\ Returned
    /\ Len(Opps) > 0
    /\ \E i, j \in 1..Len(rawdata) :
         /\ i # j
         /\ rawdata[i].Location = rawdata[j].Location
         /\ rawdata[i].Price = Num(Dollars(200))
         /\ rawdata[j].Price = Num(Dollars(700))

----------------------------------------------------------------------------
(* C16: the transport cost model is symmetric: two estimate_transport_cost *)
(* calls with the same two locations in opposite order, modeled in the     *)
(* cost matrix or not, give the same cost.                                 *)
C16_TransportSymmetric ==
    \A i, j \in 1..Len(quotes) :
        (quotes[i].from = quotes[j].to /\ quotes[i].to = quotes[j].from)
            => quotes[i].cost = quotes[j].cost

(* C16 witness: a pair the matrix lists in one order has been estimated in  *)
(* that order and in the opposite one.                                     *)
C16_Witness ==
    /\ Len(quotes) = 2
    /\ quotes[1].from = "Imperial Valley" /\ quotes[1].to = "Bay Area"
    /\ quotes[2].from = "Bay Area" /\ quotes[2].to = "Imperial Valley"
    /\ quotes[1].cost = 45

----------------------------------------------------------------------------
(* C17 as stated: a detect_arbitrage_opportunities call leaves the content *)
(* of every sheet (RawData, Opportunities, Dashboard, AIAnalysis) as it    *)
(* was.                                                                    *)
C17_DetectorPure ==
    [][Detect => UNCHANGED <<rawdata, opportunities_sheet, dashboard_sheet,
                             aianalysis_sheet>>]_vars

(* C17 amended: a detect_arbitrage_opportunities call leaves RawData,      *)
(* Dashboard and AIAnalysis as they were and persists its own result: with *)
(* at least one opportunity the Opportunities sheet becomes the header row *)
(* and the first 10 returned opportunities, with none (or an exception) it *)
(* stays as it was.                                                        *)
C17_DetectorWritesOpportunities ==
    [][Detect =>
         /\ UNCHANGED <<rawdata, dashboard_sheet, aianalysis_sheet>>
         /\ opportunities_sheet' =
              IF returned'.raised = "" /\ Len(returned'.value) > 0
              THEN [header |-> DetectHeader,
                    rows |-> SubSeq(returned'.value, 1,
                                    Min(TopN, Len(returned'.value)))]
              ELSE opportunities_sheet]_vars

(* C17 witness: the four sheets hold content and the Opportunities sheet   *)
(* holds the header row and the first rows of the result of a detect call. *)
C17_Witness ==
    /\ Returned
    /\ Len(Opps) > 0
    /\ opportunities_sheet.header = DetectHeader
    /\ opportunities_sheet.rows = SubSeq(Opps, 1, Min(TopN, Len(Opps)))
    /\ dashboard_sheet # EmptyDashboard
    /\ Len(aianalysis_sheet) > 0
    /\ Len(rawdata) > Len(base_data)

----------------------------------------------------------------------------
AllDone == \A p \in Procs : pc[p] = "done"

(* C18: when two detect_arbitrage_opportunities invocations run            *)
(* interleaved on the same unchanging RawData, each returns what it would  *)
(* return alone at its time, and once both have finished the Opportunities *)
(* sheet is the sheet one of them alone would have left: the header row    *)
(* and at most 10 opportunity rows.                                        *)
C18_ConcurrentDetectSafe ==
    AllDone =>
        /\ \A p \in Procs :
             \E t \in 1..MaxClock :
                local[p] = detect_arbitrage_opportunities(rawdata, stable_sort, t)
        /\ \E p \in Procs :
             opportunities_sheet =
                SaveToSheet([header |-> SetupHeader, rows |-> <<>>], local[p])
        /\ Len(opportunities_sheet.rows) <= TopN

----------------------------------------------------------------------------
(* C20: price records are append-only: whatever operation runs             *)
(* (construction, collect_water_data, detect_arbitrage_opportunities,      *)
(* update_dashboard, run_full_cycle), every data row of RawData stays at   *)
(* its place with its content, and the number of data rows never decreases.*)
C20_RawDataAppendOnly ==
    [][/\ Len(rawdata') >= Len(rawdata)
       /\ \A k \in 1..Len(rawdata) : rawdata'[k] = rawdata[k]]_vars

(* C20 witness: two collections are stored, the second at prices other     *)
(* than the first, and detection, the dashboard update and a construction  *)
(* have run on them.                                                       *)
C20_Witness ==
    /\ Len(rawdata) = 2 * Len(base_data)
    /\ rawdata[1].Price # rawdata[1 + Len(base_data)].Price
    /\ Returned
    /\ dashboard_sheet # EmptyDashboard
    /\ opportunities_sheet.header = SetupHeader
    /\ Len(opportunities_sheet.rows) > 0

----------------------------------------------------------------------------
(* C21: after a detect_arbitrage_opportunities call that finds n >= 1      *)
(* opportunities the Opportunities sheet holds the 'Net Profit' header row *)
(* followed by the first min(10, n) returned opportunities in returned     *)
(* order, and no row of an earlier cycle.                                  *)
C21_SheetHoldsTopOfResult ==
    [][(Detect /\ returned'.raised = "" /\ Len(returned'.value) >= 1) =>
          /\ opportunities_sheet'.header = DetectHeader
          /\ Len(opportunities_sheet'.rows) = Min(TopN, Len(returned'.value))
          /\ \A k \in 1..Len(opportunities_sheet'.rows) :
                opportunities_sheet'.rows[k] = returned'.value[k]]_vars

(* C21 witness: a second call on the same records, made after the clock    *)
(* moved, found more than 10 opportunities and the sheet holds its first   *)
(* 10, stamped with the time of that call.                                 *)
C21_Witness ==
    /\ Returned
    /\ calls >= 2
    /\ Len(Opps) > TopN
    /\ Len(opportunities_sheet.rows) = TopN
    /\ opportunities_sheet.rows[1] = Opps[1]
    /\ Opps[1].timestamp > 1

----------------------------------------------------------------------------
(* the top block update_dashboard writes for the first row of the sheet *)
TopOf(row) ==
    [buy |-> <<row.buy_location, row.buy_price>>,
     sell |-> <<row.sell_location, row.sell_price>>,
     profit |-> row.net_profit,
     risk |-> row.risk_score \div 10,
     updated |-> row.timestamp]

C24_HeaderNamesNetProfit ==
    Len(opportunities_sheet.rows) > 0 =>
        /\ opportunities_sheet.header = DetectHeader
        /\ update_dashboard(rawdata, opportunities_sheet, dashboard_sheet,
                            now).raised # "KeyError"

----------------------------------------------------------------------------
(* C22: run_full_cycle always returns a dict. It reports success False     *)
(* with an error message exactly when a step raised (the summary of the AI *)
(* analysis, the detection or the dashboard update), and then no later     *)
(* step has run: after a failed analysis the Opportunities, AIAnalysis and *)
(* Dashboard sheets are as before, after a failed detection the Dashboard  *)
(* is as before. Otherwise it reports success True, data_points the number *)
(* of rows collected and opportunities the number of opportunities the     *)
(* detection returned.                                                     *)
C22_CycleReportsOutcome ==
    [][RunFullCycle =>
         LET analysis_raised == SummaryRaises(rawdata')
             detect_raised == ~analysis_raised /\ returned'.raised # ""
             board_raised ==
                 /\ ~analysis_raised /\ ~detect_raised
                 /\ update_dashboard(rawdata', opportunities_sheet',
                                     dashboard_sheet, now').raised # ""
         IN  /\ cycle'.ran
             /\ cycle'.success <=>
                   ~(analysis_raised \/ detect_raised \/ board_raised)
             /\ ~cycle'.success => cycle'.error # ""
             /\ analysis_raised =>
                   UNCHANGED <<opportunities_sheet, aianalysis_sheet,
                               dashboard_sheet>>
             /\ detect_raised =>
                   /\ cycle'.error = returned'.raised
                   /\ UNCHANGED <<opportunities_sheet, dashboard_sheet>>
             /\ cycle'.success =>
                   /\ cycle'.data_points = Len(rawdata') - Len(rawdata)
                   /\ cycle'.data_points = Len(base_data)
                   /\ cycle'.opportunities = Len(returned'.value)]_vars

(* C22 witness: the detection of a cycle raised on the record with price 0 *)
(* after the analysis had been stored; the cycle returned success False    *)
(* and the dashboard was not written.                                      *)
C22_Witness ==
    /\ cycle.ran /\ ~cycle.success
    /\ cycle.error = "ZeroDivisionError"
    /\ returned.raised = "ZeroDivisionError"
    /\ Len(rawdata) = 1 + Len(base_data)
    /\ Len(aianalysis_sheet) = 1
    /\ dashboard_sheet = EmptyDashboard

----------------------------------------------------------------------------
(* C25: the result of one detection never holds an opportunity from A to B *)
(* together with the opportunity from B to A.                              *)
C25_OneDirectionPerPair ==
    Returned =>
        LET opps == Opps
        IN  \A i, j \in 1..Len(opps) :
                ~(/\ opps[i].buy_location = opps[j].sell_location
                  /\ opps[i].sell_location = opps[j].buy_location)

(* C25 witness: three locations at three prices far enough apart gave      *)
(* three opportunities, one for each pair of locations.                    *)
C25_Witness ==
    /\ Returned
    /\ Len(rawdata) = 3
    /\ Len(Opps) = 3

----------------------------------------------------------------------------
(* The news agents: ClimateNewsAgent (src/climate_news_agent.py),          *)
(* NewsAgent (src/news_agent.py) and VelesReportAgent                      *)
(* (src/veles_report_agent.py).  They share no state with the workbook     *)
(* system; each call is one action that draws the replies of the outside   *)
(* world (the model, the web pages) and records what the call returned.    *)

(* the agents start with the empty workbook of a fresh system *)
InitAgents ==
    /\ rawdata = <<>>
    /\ opportunities_sheet = [header |-> SetupHeader, rows |-> <<>>]
    /\ returned = Returns(<<>>)
    /\ calls = 0
    /\ now = 1
    /\ stable_sort = TRUE
    /\ InitFrame

(* evaluate_relevance, the same text in both news agents.  A reply of the *)
(* model is a string, here a sequence of characters; "sup2" stands for the *)
(* character U+00B2 (superscript two), for which str.isdigit() is True and *)
(* int() raises ValueError.                                                *)
MaxReply == 3

DecimalDigits == <<"0", "1", "2", "3", "4", "5", "6", "7", "8", "9">>

ReplyChars == {"0", "1", "7", " ", "-", ".", "sup2"}

Replies == UNION {[1..n -> ReplyChars] : n \in 0..MaxReply}

IsDecimal(c) == \E k \in 1..10 : DecimalDigits[k] = c

RECURSIVE lstrip(_)
lstrip(s) ==
    IF s # <<>> /\ Head(s) = " " THEN lstrip(Tail(s)) ELSE s

RECURSIVE rstrip(_)
rstrip(s) ==
    IF s # <<>> /\ s[Len(s)] = " " THEN rstrip(SubSeq(s, 1, Len(s) - 1)) ELSE s

strip(s) == rstrip(lstrip(s))

isdigit(s) ==
    /\ s # <<>>
    /\ \A i \in 1..Len(s) : IsDecimal(s[i]) \/ s[i] = "sup2"

RECURSIVE int(_)
int(s) ==
    IF \E i \in 1..Len(s) : ~IsDecimal(s[i]) THEN Raises("ValueError")
    ELSE IF s = <<>> THEN Returns(0)
    ELSE Returns(10 * int(SubSeq(s, 1, Len(s) - 1)).value
                 + (CHOOSE k \in 1..10 : DecimalDigits[k] = s[Len(s)]) - 1)

(* mutant: the score is clamped into 0..10 *)
Mutant_evaluate_relevance_FloorZero(response) ==
    IF response.failed THEN Returns(5)
    ELSE LET score_text == strip(response.output_text)
             score == IF isdigit(score_text) THEN int(score_text)
                      ELSE Returns(5)
         IN  IF score.raised # "" THEN Returns(5)
             ELSE Returns(Max(0, Min(10, score.value)))

(* lines 80-111: the whole body is inside try; except Exception (line     *)
(* 109) returns 5 for a failed call and for an int() that raises           *)
evaluate_relevance(response) ==
    IF response.failed THEN Returns(5)
    ELSE LET score_text == strip(response.output_text)
             score == IF isdigit(score_text) THEN int(score_text)
                      ELSE Returns(5)
         IN  IF score.raised # "" THEN Returns(5)
             ELSE Returns(Max(1, Min(10, score.value)))

(* the method keeps no state: one call on a fresh agent stands for all *)
EvaluateRelevance ==
    /\ relevance = NoCall
    /\ \E response \in {[failed |-> TRUE, output_text |-> <<>>]}
                     \cup {[failed |-> FALSE, output_text |-> r] :
                             r \in Replies} :
         relevance' = [op |-> "evaluate_relevance",
                       response |-> response,
                       returned |-> evaluate_relevance(response)]
    /\ UNCHANGED workbook
    /\ UNCHANGED <<intelligence, veles>>

NextRelevance == EvaluateRelevance

SpecRelevance == InitAgents /\ [][NextRelevance]_vars

(* the reply without the blanks around it *)
Trimmed(text) ==
    LET inked == {i \in 1..Len(text) : text[i] # " "}
    IN  IF inked = {} THEN <<>>
        ELSE SubSeq(text,
                    CHOOSE i \in inked : \A j \in inked : i <= j,
                    CHOOSE i \in inked : \A j \in inked : j <= i)

(* the decimal numeral of n, without leading zeros *)
RECURSIVE Decimal(_)
Decimal(n) ==
    IF n < 10 THEN <<DecimalDigits[n + 1]>>
    ELSE Append(Decimal(n \div 10), DecimalDigits[(n % 10) + 1])

(* text is a plain non-negative integer that denotes n: the numeral of n, *)
(* possibly after leading zeros                                            *)
Denotes(text, n) ==
    \E zeros \in 0..Len(text) :
        text = [i \in 1..zeros |-> "0"] \o Decimal(n)

(* text is written with decimal digits only *)
PlainInteger(text) ==
    text # <<>> /\ \A i \in 1..Len(text) : IsDecimal(text[i])

(* C30: evaluate_relevance never raises and returns an integer in 1..10:  *)
(* a reply that is a plain non-negative integer n gives n clamped into     *)
(* 1..10 (a reply of 0 gives 1, a reply above 10 gives 10), every other    *)
(* reply gives 5, and a failed API call gives 5.                           *)
C30_RelevanceInRange ==
    relevance.op = "evaluate_relevance" =>
        LET result == relevance.returned
            text == Trimmed(relevance.response.output_text)
            upto10 == {n \in 0..10 : Denotes(text, n)}
        IN  /\ result.raised = ""
            /\ result.value \in 1..10
            /\ relevance.response.failed => result.value = 5
            /\ ~relevance.response.failed =>
                  /\ ~PlainInteger(text) => result.value = 5
                  /\ \A n \in upto10 :
                        result.value = IF n = 0 THEN 1 ELSE n
                  /\ PlainInteger(text) /\ upto10 = {} => result.value = 10

(* C30 witness: the reply "0", a plain integer below the range, was      *)
(* scored 1                                                                *)
C30_Witness ==
    /\ relevance.op = "evaluate_relevance"
    /\ ~relevance.response.failed
    /\ relevance.response.output_text = <<"0">>
    /\ relevance.returned = Returns(1)

----------------------------------------------------------------------------
(* ClimateNewsAgent.get_climate_intelligence and the steps it runs.        *)
(* Python values are records tagged with their type.  A text is the        *)
(* template that produced it and the headlines it embeds; a response of    *)
(* the API either failed (responses.create raised) or carries output_text. *)
MaxLines == 4
MaxArticles == 3

PyNone == [type |-> "NoneType"]
PyStr(s) == [type |-> "str", text |-> s]
PyNumber(type, n) == [type |-> type, value |-> n]
PyInt(n) == PyNumber("int", n)

TextOf(template, headlines) ==
    [type |-> "str", template |-> template, headlines |-> headlines]

DictOf(error, events, summary, raw_analysis) ==
    [type |-> "dict", error |-> error, events |-> events,
     summary |-> summary, raw_analysis |-> raw_analysis]

(* the classes 'except Exception' catches; SystemExit is a BaseException  *)
ExceptionClasses == {"APIError", "SyntaxError", "ValueError"}

Failed == [failed |-> TRUE, output_text |-> ""]
Reply(output_text) == [failed |-> FALSE, output_text |-> output_text]

(* a call's outcome with the API requests made, in order *)
Outcome(value, raised, requests) ==
    [value |-> value, raised |-> raised, requests |-> requests]
Request(step, response) == [step |-> step, failed |-> response.failed]

(* lines 486-508 *)
search_climate_news(response) ==
    IF response.failed THEN Returns("API call failed")
    ELSE Returns(response.output_text)

(* the lines of a URL reply: article links and other text *)
ReplyLines == {"http://article", "- note"}

(* lines 128-161 *)
get_article_urls(response) ==
    IF response.failed THEN <<>>
    ELSE LET startswith_http(line) == line = "http://article"
             urls == SelectSeq(response.output_text, startswith_http)
         IN  SubSeq(urls, 1, Min(MaxArticles, Len(urls)))

(* lines 163-192 *)
read_full_article(response) ==
    IF response.failed THEN "Unable to read full article"
    ELSE response.output_text

(* lines 194-231 *)
extract_operational_insights(response) ==
    IF response.failed THEN "Unable to extract operational insights"
    ELSE response.output_text

(* lines 266-304 *)
summarize_actionable_intelligence(response, headlines) ==
    IF response.failed
    THEN TextOf("Headlines: ... Deep Analysis: Available but summary failed",
                headlines)
    ELSE TextOf(response.output_text, "")

(* the responses of one run: of the search, of the URL extraction, of the *)
(* article reading and the insight extraction per article, of the summary  *)
(* and of the formatting                                                   *)
RECURSIVE ArticleRequests(_, _)
ArticleRequests(articles, i) ==
    IF i > Len(articles) THEN <<>>
    ELSE << Request("read_full_article", articles[i].read),
            Request("extract_operational_insights", articles[i].insights) >>
         \o ArticleRequests(articles, i + 1)

(* lines 233-264 *)
deep_analysis_search(api) ==
    LET search == search_climate_news(api.search)
        urls == get_article_urls(api.urls)
        first == << Request("search_climate_news", api.search) >>
    IN  IF search.raised # "" THEN Outcome(<<>>, search.raised, first)
        ELSE IF urls = <<>>
        THEN Outcome(TextOf("Headlines Summary: ... No articles identified",
                            search.value),
                     "",
                     first \o << Request("get_article_urls", api.urls) >>)
        ELSE Outcome(summarize_actionable_intelligence(api.summary,
                                                       search.value),
                     "",
                     first \o << Request("get_article_urls", api.urls) >>
                     \o ArticleRequests(api.articles, 1)
                     \o << Request("summarize_actionable_intelligence",
                                   api.summary) >>)

(* eval of the model's reply (line 385): a dict literal, another valid    *)
(* expression, text that is no expression, or an expression that leaves    *)
(* the interpreter, as exit() does                                         *)
FormatReplies == {"{...}", "[...]", "Here is the dictionary: {...}", "exit()"}

eval(output_text) ==
    CASE output_text = "{...}" ->
            Returns(DictOf("", <<"event">>, "executive summary from analysis",
                           "full original analysis text"))
      [] output_text = "[...]" -> Returns([type |-> "list"])
      [] output_text = "exit()" -> Raises("SystemExit")
      [] OTHER -> Raises("SyntaxError")

(* lines 343-426: the inner except Exception (line 390) falls through to  *)
(* the fallback dict, the outer one (line 414) returns FORMATTING_ERROR    *)
format_for_agents(response, analysis_result, threshold) ==
    IF response.failed
    THEN Returns(DictOf("FORMATTING_ERROR", <<>>,
                        "Structured formatting failed", analysis_result))
    ELSE LET structured_data == eval(response.output_text)
         IN  IF structured_data.raised = ""
                /\ structured_data.value.type = "dict"
             THEN Returns([structured_data.value
                              EXCEPT !.raw_analysis = analysis_result])
             ELSE IF structured_data.raised = ""
                     \/ structured_data.raised \in ExceptionClasses
             THEN Returns(DictOf("", <<"mixed">>,
                                 "Climate events affecting Imperial Irrigation District operations detected",
                                 analysis_result))
             ELSE Raises(structured_data.raised)

IsStructured(format) == format = PyStr("structured")

(* lines 306-341 *)
get_climate_intelligence(api, query, threshold, format) ==
    LET analysis == deep_analysis_search(api)
        formatted == format_for_agents(api.format, analysis.value, threshold)
        requests == IF analysis.raised = "" /\ IsStructured(format)
                    THEN analysis.requests
                         \o << Request("format_for_agents", api.format) >>
                    ELSE analysis.requests
        raised == IF analysis.raised # "" THEN analysis.raised
                  ELSE IF IsStructured(format) THEN formatted.raised
                  ELSE ""
    IN  IF raised = ""
        THEN Outcome(IF IsStructured(format) THEN formatted.value
                     ELSE analysis.value,
                     "", requests)
        ELSE IF raised \in ExceptionClasses
        THEN Outcome(IF IsStructured(format)
                     THEN DictOf("API_FAILURE", <<>>,
                                 "Climate intelligence unavailable due to system error",
                                 PyNone)
                     ELSE TextOf("Climate intelligence failed", ""),
                     "", requests)
        ELSE Outcome(<<>>, raised, requests)

(* lines 428-444 *)
validate_agent_input(query, threshold, format) ==
    (IF ~(threshold.type \in {"int", "bool"})
        \/ threshold.value < 1 \/ threshold.value > 10
     THEN <<"THRESHOLD_ERROR">> ELSE <<>>)
    \o (IF format \notin {PyStr("structured"), PyStr("human")}
        THEN <<"FORMAT_ERROR">> ELSE <<>>)
    \o (IF query # PyNone /\ query.type # "str"
        THEN <<"QUERY_ERROR">> ELSE <<>>)

(* lines 446-484 *)
get_climate_intelligence_safe(api, query, threshold, format) ==
    LET validation_errors == validate_agent_input(query, threshold, format)
        main == get_climate_intelligence(api, query, threshold, format)
    IN  IF validation_errors # <<>>
        THEN Outcome(IF IsStructured(format)
                     THEN DictOf("VALIDATION_ERROR", <<>>,
                                 "Input validation failed", PyNone)
                     ELSE TextOf("Validation errors", ""),
                     "", <<>>)
        ELSE IF main.raised \in ExceptionClasses
        THEN Outcome(IF IsStructured(format)
                     THEN DictOf("SYSTEM_ERROR", <<>>,
                                 "System temporarily unavailable", PyNone)
                     ELSE TextOf("Climate intelligence temporarily unavailable",
                                 ""),
                     "", main.requests)
        ELSE main

(* the arguments of the calls *)
Queries == {PyNone, PyStr("drought"), PyInt(7)}
Thresholds ==
    {PyInt(0), PyInt(1), PyInt(10), PyInt(11), PyNumber("bool", 1),
     PyNumber("float", 8),
     PyStr("8")}
Formats == {PyStr("structured"), PyStr("human"), PyStr("json"), PyNone}

Responded(replies) == {Failed} \cup {Reply(r) : r \in replies}
UrlResponses ==
    {Failed}
    \cup {Reply(lines) :
            lines \in UNION {[1..n -> ReplyLines] : n \in 0..MaxLines}}
ArticleResponses ==
    [read : Responded({"article"}), insights : Responded({"insights"})]

(* the runs of the pipeline: the responses the calls of one run receive;  *)
(* a call that is not made has no response                                 *)
Unused == [failed |-> FALSE, output_text |-> "unused"]

GetClimateIntelligence ==
    /\ intelligence = NoCall
    /\ \E query \in {PyNone, PyStr("drought")}, format \in Formats,
          search \in Responded({"headlines"}), urls \in UrlResponses :
         LET n == Len(get_article_urls(urls))
         IN  \E articles \in [1..n -> ArticleResponses],
                summary \in (IF n = 0 THEN {Unused}
                             ELSE Responded({"briefing"})),
                reply \in (IF IsStructured(format)
                           THEN Responded(FormatReplies) ELSE {Unused}) :
               intelligence' =
                  [op |-> "get_climate_intelligence", query |-> query,
                   threshold |-> PyInt(8), format |-> format,
                   returned |->
                      get_climate_intelligence(
                          [search |-> search, urls |-> urls,
                           articles |-> articles, summary |-> summary,
                           format |-> reply],
                          query, PyInt(8), format)]
    /\ UNCHANGED workbook
    /\ UNCHANGED <<relevance, veles>>

GetClimateIntelligenceSafe ==
    /\ intelligence = NoCall
    /\ \E query \in Queries, threshold \in Thresholds, format \in Formats :
         LET valid == validate_agent_input(query, threshold, format) = <<>>
         IN  \E search \in (IF valid THEN Responded({"headlines"})
                            ELSE {Unused}),
                urls \in (IF valid THEN UrlResponses ELSE {Unused}) :
               LET n == IF valid THEN Len(get_article_urls(urls)) ELSE 0
               IN  \E articles \in [1..n -> ArticleResponses],
                      summary \in (IF n = 0 THEN {Unused}
                                   ELSE Responded({"briefing"})),
                      reply \in (IF valid /\ IsStructured(format)
                                 THEN Responded(FormatReplies)
                                 ELSE {Unused}) :
                     intelligence' =
                        [op |-> "get_climate_intelligence_safe",
                         query |-> query, threshold |-> threshold,
                         format |-> format,
                         returned |->
                            get_climate_intelligence_safe(
                                [search |-> search, urls |-> urls,
                                 articles |-> articles, summary |-> summary,
                                 format |-> reply],
                                query, threshold, format)]
    /\ UNCHANGED workbook
    /\ UNCHANGED <<relevance, veles>>

NextClimate == GetClimateIntelligence \/ GetClimateIntelligenceSafe

SpecClimate == InitAgents /\ [][NextClimate]_vars

(* what the claims say of a call *)
AllRequestsFailed(outcome) ==
    \A i \in 1..Len(outcome.requests) : outcome.requests[i].failed

IsErrorDict(value, error) ==
    /\ value.type = "dict"
    /\ value.error = error
    /\ value.events = <<>>

(* C29 (step part): get_climate_intelligence never returns the            *)
(* API_FAILURE result and no exception of the API leaves it: a failed      *)
(* search is passed on as the headlines text, and when every API call      *)
(* fails the structured result is the FORMATTING_ERROR dict with empty     *)
(* events and the human result is the headlines summary.                   *)
C29_ApiExceptionsAbsorbed ==
    intelligence.op = "get_climate_intelligence" =>
        LET outcome == intelligence.returned
        IN  /\ outcome.raised \notin ExceptionClasses
            /\ outcome.raised = "" =>
                  /\ ~IsErrorDict(outcome.value, "API_FAILURE")
                  /\ outcome.value # TextOf("Climate intelligence failed", "")
                  /\ AllRequestsFailed(outcome) =>
                        IF IsStructured(intelligence.format)
                        THEN /\ IsErrorDict(outcome.value, "FORMATTING_ERROR")
                             /\ outcome.value.raw_analysis.headlines
                                   = "API call failed"
                        ELSE /\ outcome.value.type = "str"
                             /\ outcome.value.headlines = "API call failed"
                             /\ outcome.value.template
                                   = "Headlines Summary: ... No articles identified"

(* C29: get_climate_intelligence never raises and never returns the       *)
(* API_FAILURE result; when every API call fails the structured result is  *)
(* the FORMATTING_ERROR dict with empty events and the human result a      *)
(* plain text.                                                             *)
C29_NeverRaisesNorApiFailure ==
    intelligence.op = "get_climate_intelligence" =>
        /\ intelligence.returned.raised = ""
        /\ ~IsErrorDict(intelligence.returned.value, "API_FAILURE")
        /\ AllRequestsFailed(intelligence.returned) =>
              IF IsStructured(intelligence.format)
              THEN IsErrorDict(intelligence.returned.value, "FORMATTING_ERROR")
              ELSE intelligence.returned.value.type = "str"

(* C29: a run in which every API call failed returned FORMATTING_ERROR *)
C29_Witness ==
    /\ intelligence.op = "get_climate_intelligence"
    /\ intelligence.returned.raised = ""
    /\ AllRequestsFailed(intelligence.returned)
    /\ IsErrorDict(intelligence.returned.value, "FORMATTING_ERROR")

(* the arguments validate_agent_input accepts, as the claim words them *)
ThresholdAccepted(threshold) ==
    \E k \in 1..10 : threshold = PyInt(k) \/ threshold = PyNumber("bool", k)
FormatAccepted(format) == format = PyStr("structured") \/ format = PyStr("human")
QueryAccepted(query) == query = PyNone \/ query.type = "str"

(* C26 (validation part): when an argument is not accepted,               *)
(* get_climate_intelligence_safe makes no API call and returns the         *)
(* VALIDATION_ERROR dict with empty events exactly when format is          *)
(* 'structured', otherwise a string; no exception of class Exception       *)
(* leaves it.                                                              *)
C26_ValidationBeforeAnyCall ==
    intelligence.op = "get_climate_intelligence_safe" =>
        LET outcome == intelligence.returned
            accepted == /\ ThresholdAccepted(intelligence.threshold)
                        /\ FormatAccepted(intelligence.format)
                        /\ QueryAccepted(intelligence.query)
        IN  /\ outcome.raised \notin ExceptionClasses
            /\ ~accepted =>
                  /\ outcome.raised = ""
                  /\ outcome.requests = <<>>
                  /\ IsStructured(intelligence.format)
                        <=> IsErrorDict(outcome.value, "VALIDATION_ERROR")
                  /\ ~IsStructured(intelligence.format)
                        <=> outcome.value.type = "str"
            /\ accepted => outcome.requests # <<>>

(* C26: get_climate_intelligence_safe never raises, and on a validation   *)
(* error returns, without an API call, the VALIDATION_ERROR dict with      *)
(* empty events exactly when format is 'structured', otherwise a string.   *)
C26_SafeNeverRaises ==
    intelligence.op = "get_climate_intelligence_safe" =>
        /\ intelligence.returned.raised = ""
        /\ ~(/\ ThresholdAccepted(intelligence.threshold)
             /\ FormatAccepted(intelligence.format)
             /\ QueryAccepted(intelligence.query)) =>
              /\ intelligence.returned.requests = <<>>
              /\ IsStructured(intelligence.format)
                    <=> IsErrorDict(intelligence.returned.value,
                                    "VALIDATION_ERROR")
              /\ ~IsStructured(intelligence.format)
                    <=> intelligence.returned.value.type = "str"

(* C26: a call with threshold 11 returned the validation error without a  *)
(* request                                                                 *)
C26_Witness ==
    /\ intelligence.op = "get_climate_intelligence_safe"
    /\ intelligence.threshold = PyInt(11)
    /\ IsStructured(intelligence.format)
    /\ intelligence.returned.requests = <<>>
    /\ IsErrorDict(intelligence.returned.value, "VALIDATION_ERROR")

----------------------------------------------------------------------------
(* VelesReportAgent (src/veles_report_agent.py).  A datetime is a number  *)
(* of clock ticks; datetime(year, month, day) is midnight of that day.  A  *)
(* link's text (file name and link text) is the sequence of the date-like  *)
(* pieces in it, each in the shape of one of the four date_patterns.       *)
MaxLinks == 3
TicksPerDay == 8

datetime(year, month, day) ==
    ((year * 12 + (month - 1)) * 31 + (day - 1)) * TicksPerDay

(* the time of the run, some ticks after midnight of 2026-11-06 *)
CurrentTime == datetime(2026, 11, 6) + 1

date_patterns == <<"YYYY-MM-DD", "MM-DD-YYYY", "MM/DD/YYYY", "Month DD, YYYY">>

MonthNames ==
    <<"january", "february", "march", "april", "may", "june", "july",
      "august", "september", "october", "november", "december">>

Piece(pattern, word, year, month, day) ==
    [pattern |-> pattern, word |-> word, year |-> year, month |-> month,
     day |-> day]

(* report-2025-01-05.pdf; 01-05-2025; a file name with 2025-02-30 and the *)
(* link text March 3, 2025; no date; 12/31/2027; Jan 5, 2025; a file name  *)
(* with 2025-02-30 and the link text 2025-03-01                            *)
LinkTexts ==
    { << Piece("YYYY-MM-DD", "", 2025, 1, 5) >>,
      << Piece("MM-DD-YYYY", "", 2025, 1, 5) >>,
      << Piece("YYYY-MM-DD", "", 2025, 2, 30),
         Piece("Month DD, YYYY", "march", 2025, 0, 3) >>,
      << >>,
      << Piece("MM/DD/YYYY", "", 2027, 12, 31) >>,
      << Piece("Month DD, YYYY", "jan", 2025, 0, 5) >>,
      << Piece("YYYY-MM-DD", "", 2025, 2, 30),
         Piece("YYYY-MM-DD", "", 2025, 3, 1) >> }

IsLeap(year) == year % 4 = 0 /\ (year % 100 # 0 \/ year % 400 = 0)

DaysInMonth(year, month) ==
    IF month = 2 THEN (IF IsLeap(year) THEN 29 ELSE 28)
    ELSE IF month \in {4, 6, 9, 11} THEN 30 ELSE 31

(* datetime(year, month, day) raises ValueError outside the calendar *)
ValueError(year, month, day) ==
    ~(/\ year \in 1..9999
      /\ month \in 1..12
      /\ day \in 1..DaysInMonth(year, month))

(* strptime with %B: the full month name, in any case *)
MonthOf(word) ==
    IF \E k \in 1..12 : MonthNames[k] = word
    THEN CHOOSE k \in 1..12 : MonthNames[k] = word
    ELSE 0

(* re.search: the first piece of the text in the pattern's shape *)
search(pattern, text) ==
    LET at == {i \in 1..Len(text) : text[i].pattern = pattern}
    IN  IF at = {} THEN <<>>
        ELSE << text[CHOOSE i \in at : \A j \in at : i <= j] >>

(* lines 124-156 (_extract_date_from_text), from pattern k on: a match    *)
(* that is no calendar date moves on to the next pattern (line 153); the   *)
(* default is datetime.now(), here clock                                   *)
RECURSIVE extract_date_from_text(_, _, _)
extract_date_from_text(text, k, clock) ==
    IF k > Len(date_patterns) THEN clock
    ELSE LET match == search(date_patterns[k], text)
             month == IF match = <<>> THEN 0
                      ELSE IF match[1].word # "" THEN MonthOf(match[1].word)
                      ELSE match[1].month
         IN  IF match = <<>>
                \/ ValueError(match[1].year, month, match[1].day)
             THEN extract_date_from_text(text, k + 1, clock)
             ELSE datetime(match[1].year, month, match[1].day)

(* a page of the site: the request failed, or the PDF links of the page *)
Page(failed, links) == [failed |-> failed, links |-> links]

(* lines 85-122 (_get_reports_from_page); before links are on the pages   *)
(* read earlier.  datetime.now() at the k-th link of the run is k ticks    *)
(* after CurrentTime on a clock that moves between two calls, and          *)
(* CurrentTime on one too coarse to                                        *)
get_reports_from_page(name, page, ticking, before) ==
    IF page.failed THEN <<>>
    ELSE [i \in 1..Len(page.links) |->
            [url |-> [page |-> name, position |-> i],
             date |-> extract_date_from_text(page.links[i], 1,
                                             CurrentTime
                                             + (IF ticking THEN before + i
                                                ELSE 0)),
             link_text |-> page.links[i]]]

(* lines 53-61: the reports of the main page, then of the archive *)
all_reports(main, archive, ticking) ==
    LET main_reports == get_reports_from_page("main", main, ticking, 0)
    IN  main_reports
        \o get_reports_from_page("archive", archive, ticking,
                                 Len(main_reports))

(* mutant: of the reports with the greatest date the last one is taken *)
Mutant_find_latest_report_LastWins(main, archive, ticking) ==
    LET reports == all_reports(main, archive, ticking)
    IN  IF reports = <<>>
        THEN [success |-> FALSE, error |-> "No reports found on either page",
              report |-> <<>>]
        ELSE [success |-> TRUE, error |-> "",
              report |->
                 reports[CHOOSE i \in 1..Len(reports) :
                    /\ \A j \in 1..Len(reports) :
                          reports[j].date <= reports[i].date
                    /\ \A j \in (i + 1)..Len(reports) :
                          reports[j].date < reports[i].date]]

(* lines 42-83: max() keeps the first of the items with the greatest key *)
find_latest_report(main, archive, ticking) ==
    LET reports == all_reports(main, archive, ticking)
    IN  IF reports = <<>>
        THEN [success |-> FALSE, error |-> "No reports found on either page",
              report |-> <<>>]
        ELSE [success |-> TRUE, error |-> "",
              report |->
                 reports[CHOOSE i \in 1..Len(reports) :
                    /\ \A j \in 1..Len(reports) :
                          reports[j].date <= reports[i].date
                    /\ \A j \in 1..(i - 1) :
                          reports[j].date < reports[i].date]]

(* the pages a run can meet: at most MaxLinks links on both together *)
Pages(n) ==
    {Page(TRUE, <<>>)}
    \cup {Page(FALSE, links) :
            links \in UNION {[1..k -> LinkTexts] : k \in 0..n}}

FindLatestReport ==
    /\ veles = NoCall
    /\ \E ticking \in BOOLEAN, main \in Pages(MaxLinks) :
         \E archive \in Pages(MaxLinks - Len(main.links)) :
            veles' = [op |-> "find_latest_report",
                      main |-> main, archive |-> archive,
                      found |-> all_reports(main, archive, ticking),
                      returned |-> find_latest_report(main, archive, ticking)]
    /\ UNCHANGED workbook
    /\ UNCHANGED <<relevance, intelligence>>

Step(step, ok) == [step |-> step, ok |-> ok]

(* lines 158-177: the response of the download, ok or an exception *)
download_pdf(ok) ==
    IF ok THEN [success |-> TRUE, error |-> ""]
    ELSE [success |-> FALSE, error |-> "Failed to download PDF"]

(* the outcomes of chat.completions.create: a message with content, a     *)
(* message whose content is None, an exception                             *)
Completions == {"content", "None", "error"}

(* lines 220-292: without the extracted text no completion is requested *)
analyze_pdf_with_ai(extracted, completion) ==
    IF ~extracted
    THEN [text |-> PyStr("PDF Extraction Failed"),
          steps |-> << Step("analyze_pdf_with_ai", FALSE) >>]
    ELSE [text |-> CASE completion = "content" -> PyStr("analysis")
                     [] completion = "None" -> PyNone
                     [] OTHER -> PyStr("AI Analysis Failed"),
          steps |-> << Step("analyze_pdf_with_ai", completion = "content"),
                       Step("chat.completions.create",
                            completion # "error") >>]

(* the outcomes of the map request: status 200, another status, an       *)
(* exception                                                               *)
MapResponses == {"200", "404", "error"}

(* lines 294-309: the data URL, or None *)
get_drought_monitor_map(response) ==
    IF response = "200" THEN PyStr("data:image/png;base64") ELSE PyNone

Analysis(text, drought_map) == [text |-> text, drought_map |-> drought_map]

(* mutant: the map is fetched after a failed download as well *)
Mutant_run_analysis_MapAfterFailedDownload(report_result, downloaded, extracted, completion, response) ==
    LET find == << Step("find_latest_report", report_result.success) >>
        download_result == download_pdf(downloaded)
        download == << Step("download_pdf", download_result.success) >>
        analysis == analyze_pdf_with_ai(extracted, completion)
        drought_map == get_drought_monitor_map(response)
        fetch == << Step("get_drought_monitor_map", drought_map # PyNone) >>
    IN  IF ~report_result.success
        THEN Outcome(Analysis(PyStr("Error"), FALSE), "", find)
        ELSE IF ~download_result.success
        THEN Outcome(Analysis(PyStr("Download Error"), FALSE), "",
                     find \o download \o fetch)
        ELSE IF drought_map = PyNone
        THEN Outcome(Analysis(analysis.text, FALSE), "",
                     find \o download \o analysis.steps \o fetch)
        ELSE IF analysis.text = PyNone
        THEN Outcome(<<>>, "TypeError",
                     find \o download \o analysis.steps \o fetch)
        ELSE Outcome(Analysis(analysis.text, TRUE), "",
                     find \o download \o analysis.steps \o fetch)

(* lines 311-343; analysis += ... (line 340) raises TypeError when the    *)
(* completion's content was None                                           *)
run_analysis(report_result, downloaded, extracted, completion, response) ==
    LET find == << Step("find_latest_report", report_result.success) >>
        download_result == download_pdf(downloaded)
        download == << Step("download_pdf", download_result.success) >>
        analysis == analyze_pdf_with_ai(extracted, completion)
        drought_map == get_drought_monitor_map(response)
        fetch == << Step("get_drought_monitor_map", drought_map # PyNone) >>
    IN  IF ~report_result.success
        THEN Outcome(Analysis(PyStr("Error"), FALSE), "", find)
        ELSE IF ~download_result.success
        THEN Outcome(Analysis(PyStr("Download Error"), FALSE), "",
                     find \o download)
        ELSE IF drought_map = PyNone
        THEN Outcome(Analysis(analysis.text, FALSE), "",
                     find \o download \o analysis.steps \o fetch)
        ELSE IF analysis.text = PyNone
        THEN Outcome(<<>>, "TypeError",
                     find \o download \o analysis.steps \o fetch)
        ELSE Outcome(Analysis(analysis.text, TRUE), "",
                     find \o download \o analysis.steps \o fetch)

RunAnalysis ==
    /\ veles = NoCall
    /\ \E ticking \in BOOLEAN, main \in Pages(MaxLinks) :
         \E archive \in Pages(MaxLinks - Len(main.links)) :
            LET report_result == find_latest_report(main, archive, ticking)
            IN  \E downloaded \in (IF report_result.success THEN BOOLEAN
                                   ELSE {FALSE}) :
                \E extracted \in (IF downloaded THEN BOOLEAN ELSE {FALSE}),
                   response \in (IF downloaded THEN MapResponses
                                 ELSE {"error"}) :
                \E completion \in (IF extracted THEN Completions
                                   ELSE {"error"}) :
                   veles' = [op |-> "run_analysis",
                             report_result |-> report_result,
                             analysis |->
                                analyze_pdf_with_ai(extracted, completion).text,
                             returned |->
                                run_analysis(report_result, downloaded,
                                             extracted, completion, response)]
    /\ UNCHANGED workbook
    /\ UNCHANGED <<relevance, intelligence>>

NextVeles == FindLatestReport \/ RunAnalysis

SpecVeles == InitAgents /\ [][NextVeles]_vars

(* the reports a page puts in: none when its request failed *)
Yield(page) == IF page.failed THEN 0 ELSE Len(page.links)

(* the calendar dates, as the claim reads a link text: the text names a   *)
(* date when one of its pieces is a day of the calendar                    *)
MonthLengths == <<31, 28, 31, 30, 31, 30, 31, 31, 30, 31, 30, 31>>
NamesDay(piece) ==
    LET month == IF piece.word = "" THEN piece.month ELSE MonthOf(piece.word)
    IN  /\ month \in 1..12
        /\ piece.day >= 1
        /\ \/ piece.day <= MonthLengths[month]
           \/ month = 2 /\ piece.day = 29 /\ IsLeap(piece.year)
WrittenDay(piece) ==
    datetime(piece.year,
             IF piece.word = "" THEN piece.month ELSE MonthOf(piece.word),
             piece.day)
Undated(text) == \A i \in 1..Len(text) : ~NamesDay(text[i])

(* C28: find_latest_report succeeds with a report dated no earlier than   *)
(* every report found on the two pages, the first listed (main page        *)
(* first) among those of that date; a report whose text names no date is   *)
(* dated at the current time, so it wins over every report dated in the    *)
(* past; success is False exactly when both pages yield no report, a page  *)
(* whose request failed yielding none.                                     *)
C28_LatestReportWins ==
    veles.op = "find_latest_report" =>
        LET found == veles.found
            result == veles.returned
            places == {i \in 1..Len(found) : found[i] = result.report}
        IN  /\ Len(found) = Yield(veles.main) + Yield(veles.archive)
            /\ \A i \in 1..Len(found) :
                  /\ found[i].url =
                        IF i <= Yield(veles.main)
                        THEN [page |-> "main", position |-> i]
                        ELSE [page |-> "archive",
                              position |-> i - Yield(veles.main)]
                  /\ Undated(found[i].link_text) =>
                        found[i].date >= CurrentTime
                  /\ Len(found[i].link_text) = 1
                        /\ NamesDay(found[i].link_text[1]) =>
                        found[i].date = WrittenDay(found[i].link_text[1])
            /\ result.success <=> found # <<>>
            /\ result.success =>
                  /\ places # {}
                  /\ \A i \in 1..Len(found) :
                        /\ found[i].date <= result.report.date
                        /\ found[i].date = result.report.date =>
                              \E p \in places : p <= i

(* C28 witness: the main page and the archive each list a report of       *)
(* 2025-01-05, written in two ways, and the main page's report is returned *)
C28_Witness ==
    /\ veles.op = "find_latest_report"
    /\ veles.returned.success
    /\ veles.returned.report.url.page = "main"
    /\ \E i \in 1..Len(veles.found) :
          /\ veles.found[i].url.page = "archive"
          /\ veles.found[i].date = veles.returned.report.date
          /\ veles.found[i].date = datetime(2025, 1, 5)

StepNames(steps) == [i \in 1..Len(steps) |-> steps[i].step]
StepOrder ==
    <<"find_latest_report", "download_pdf", "analyze_pdf_with_ai",
      "chat.completions.create", "get_drought_monitor_map">>
(* the steps run are in the order of StepOrder, none twice *)
InOrder(names) ==
    \E at \in [1..Len(names) -> 1..Len(StepOrder)] :
        /\ \A i \in 1..Len(names) : StepOrder[at[i]] = names[i]
        /\ \A i, j \in 1..Len(names) : i < j => at[i] < at[j]
Ran(call, step) == \E i \in 1..Len(call.steps) : call.steps[i].step = step
Succeeded(call, step) ==
    \E i \in 1..Len(call.steps) :
        call.steps[i].step = step /\ call.steps[i].ok

(* C27: run_analysis runs find_latest_report, download_pdf, the AI        *)
(* analysis and the drought map fetch in that order; a failed find or      *)
(* download ends the run with an error string and no later step; a failed  *)
(* map fetch leaves the analysis text as the analysis returned it and is   *)
(* no error.                                                               *)
C27_StepsInOrderStopAtFailure ==
    veles.op = "run_analysis" =>
        LET call == [steps |-> veles.returned.requests]
            names == StepNames(veles.returned.requests)
        IN  /\ InOrder(names)
            /\ names[1] = "find_latest_report"
            /\ ~Succeeded(call, "find_latest_report") =>
                  /\ Len(names) = 1
                  /\ veles.returned.raised = ""
                  /\ veles.returned.value = Analysis(PyStr("Error"), FALSE)
            /\ Succeeded(call, "find_latest_report") =>
                  /\ Ran(call, "download_pdf")
                  /\ ~Succeeded(call, "download_pdf") =>
                        /\ Len(names) = 2
                        /\ veles.returned.raised = ""
                        /\ veles.returned.value
                              = Analysis(PyStr("Download Error"), FALSE)
                  /\ Succeeded(call, "download_pdf") =>
                        /\ Ran(call, "analyze_pdf_with_ai")
                        /\ Ran(call, "get_drought_monitor_map")
                        /\ ~Succeeded(call, "get_drought_monitor_map") =>
                              /\ veles.returned.raised = ""
                              /\ veles.returned.value
                                    = Analysis(veles.analysis, FALSE)

(* C27 witness: the download failed after a report was found, and the run *)
(* ended there                                                             *)
C27_Witness ==
    /\ veles.op = "run_analysis"
    /\ veles.report_result.success
    /\ Len(veles.returned.requests) = 2
    /\ ~veles.returned.requests[2].ok
    /\ veles.returned.value = Analysis(PyStr("Download Error"), FALSE)

====
